---- MODULE Spec2Model ----
(***************************************************************************)
(* Model of the Kairox.ai conversation orchestrator:                       *)
(*   utils.py         normalize_short, extract_json_substring,             *)
(*                    extract_first_step_description                       *)
(*   orchestrator.py  stream_subagent, run_conversation                    *)
(*                                                                         *)
(* A text is a sequence of one-character strings.  json.loads is modelled  *)
(* by a recursive-descent parser over such sequences that follows the      *)
(* CPython decoder; a parsed value is a record [t, s, k, v]:               *)
(*   t  the type tag: "null" "bool" "num" "str" "list" "obj"               *)
(*   s  the characters of a string, or the lexeme of a number / boolean    *)
(*   k  the keys of an object, in insertion order                          *)
(*   v  the elements of a list, or the values of an object (parallel to k) *)
(* Python's None is the value tagged "null" (json.loads("null") is None).  *)
(*                                                                         *)
(* The operators on texts and parsed values, the parser behind json_loads  *)
(* and the serializers behind PyStr and json_dumps model the Python        *)
(* built-ins and the json module the two source files call.  An operator   *)
(* is split into helpers with parameters, rather than LET, where a value   *)
(* is used more than once.                                                 *)
(*                                                                         *)
(* Spec is one run_conversation call whose five streams are fixed when     *)
(* the agent is invoked; SpecStream is one direct stream_subagent call     *)
(* whose chunks are chosen one at a time, up to MaxChunks; SpecEcho is     *)
(* one direct stream_subagent call on an agent that echoes its             *)
(* instructions; SpecUtils is one call of extract_json_substring, of      *)
(* normalize_short, of extract_first_step_description or of one of the     *)
(* two statements that build a fallback record; SpecPair is two            *)
(* interleaved run_conversation calls on one agent, each with its five     *)
(* streams fixed from the start; SpecFair is one run_conversation call     *)
(* with fixed streams under weak fairness of the program's steps.          *)
(***************************************************************************)
EXTENDS Integers, Sequences, FiniteSets, TLC

(***************************************************************************)
(* Characters and texts                                                    *)
(***************************************************************************)
UPPER ==
  <<"A","B","C","D","E","F","G","H","I","J","K","L","M",
    "N","O","P","Q","R","S","T","U","V","W","X","Y","Z">>
LOWER ==
  <<"a","b","c","d","e","f","g","h","i","j","k","l","m",
    "n","o","p","q","r","s","t","u","v","w","x","y","z">>
Digits == {"0","1","2","3","4","5","6","7","8","9"}

\* str.split() / str.strip() whitespace, and the JSON decoder's whitespace
IsWs(c) == c \in {" ", "\t", "\n", "\r"}

\* str.lower() on one character
LowerCh(c) ==
  IF \E i \in 1..26 : UPPER[i] = c
  THEN LOWER[CHOOSE i \in 1..26 : UPPER[i] = c]
  ELSE c

\* the one element of a singleton set: The({F(x) : x \in {e}}) is F(e) with e
\* evaluated once
The(S) == CHOOSE x \in S : TRUE

\* s.lower()
Lower(s) == The({[i \in 1..Len(x) |-> LowerCh(x[i])] : x \in {s}})

\* s[:n]
Take(s, n) == IF n >= Len(s) THEN s ELSE SubSeq(s, 1, n)

\* p == s[i:i+len(p)] with a 1-based i
MatchAt(s, i, p) ==
  /\ i >= 1
  /\ i + Len(p) - 1 <= Len(s)
  /\ \A j \in 1..Len(p) : s[i + j - 1] = p[j]

\* p in s
Contains(s, p) ==
  \E x \in {s}, y \in {p} : \E i \in 1..(Len(x) - Len(y) + 1) : MatchAt(x, i, y)

\* s.startswith(p)
StartsWith(s, p) == MatchAt(s, 1, p)

\* s.strip()
RECURSIVE LStrip(_)
LStrip(s) == IF s # <<>> /\ IsWs(s[1]) THEN LStrip(Tail(s)) ELSE s
RECURSIVE RStrip(_)
RStrip(s) ==
  IF s # <<>> /\ IsWs(s[Len(s)]) THEN RStrip(SubSeq(s, 1, Len(s) - 1)) ELSE s
Strip(s) == RStrip(LStrip(s))

\* "".join(parts)
RECURSIVE Join(_)
Join(parts) == IF parts = <<>> THEN <<>> ELSE Head(parts) \o Join(Tail(parts))

\* " ".join(s.split()): runs of whitespace become one space, none at the ends
LastNonWs(s) ==
  IF \A i \in 1..Len(s) : IsWs(s[i]) THEN 0
  ELSE CHOOSE i \in 1..Len(s) : ~IsWs(s[i]) /\ \A j \in (i + 1)..Len(s) : IsWs(s[j])
SplitKept(s, last) ==
  LET Keep(p) == \/ ~IsWs(p[2])
                 \/ p[1] > 1 /\ p[1] < last /\ ~IsWs(s[p[1] - 1])
  IN  SelectSeq([i \in 1..Len(s) |-> <<i, s[i]>>], Keep)
SplitSpaced(kept) == [n \in 1..Len(kept) |-> IF IsWs(kept[n][2]) THEN " " ELSE kept[n][2]]
SplitJoinOf(s) ==
  The({SplitSpaced(kept) : kept \in {The({SplitKept(s, last) : last \in {LastNonWs(s)}})}})
SplitJoin(s) == The({SplitJoinOf(x) : x \in {s}})

\* utils.normalize_short
DefaultMaxChars == 300
normalize_short(s, max_chars) == The({Take(x, max_chars) : x \in {Lower(SplitJoin(s))}})

(***************************************************************************)
(* Parsed JSON values                                                      *)
(***************************************************************************)
JNull == [t |-> "null", s |-> <<>>, k |-> <<>>, v |-> <<>>]
JBool(lex) == [t |-> "bool", s |-> lex, k |-> <<>>, v |-> <<>>]
JNum(lex) == [t |-> "num", s |-> lex, k |-> <<>>, v |-> <<>>]
JStr(chars) == [t |-> "str", s |-> chars, k |-> <<>>, v |-> <<>>]
JList(elems) == [t |-> "list", s |-> <<>>, k |-> <<>>, v |-> elems]
JObj(keys, vals) == [t |-> "obj", s |-> <<>>, k |-> keys, v |-> vals]
None == JNull

IsDict(x) == x.t = "obj"
IsList(x) == x.t = "list"
IsStr(x) == x.t = "str"

\* the mantissa of a number lexeme: up to an exponent mark
RECURSIVE Mantissa(_)
Mantissa(lex) ==
  IF lex = <<>> \/ Head(lex) \in {"e", "E"} THEN <<>>
  ELSE <<Head(lex)>> \o Mantissa(Tail(lex))

\* bool(x) for a parsed value
Truthy(x) ==
  CASE x.t = "null" -> FALSE
    [] x.t = "bool" -> x.s = <<"t","r","u","e">>
    [] x.t = "num" ->
         \E i \in 1..Len(Mantissa(x.s)) : Mantissa(x.s)[i] \in (Digits \ {"0"}) \cup {"N", "I"}
    [] x.t = "str" -> x.s # <<>>
    [] x.t = "list" -> x.v # <<>>
    [] x.t = "obj" -> x.k # <<>>

\* key in d
HasKey(d, key) == \E i \in 1..Len(d.k) : d.k[i] = key
\* d.get(key, default)
DictGet(d, key, default) ==
  IF HasKey(d, key) THEN d.v[CHOOSE i \in 1..Len(d.k) : d.k[i] = key] ELSE default
\* d[key] = val while the decoder builds the dict: a repeated key keeps its
\* place and takes the later value
DictPut(d, key, val) ==
  IF HasKey(d, key)
  THEN JObj(d.k, [d.v EXCEPT ![CHOOSE i \in 1..Len(d.k) : d.k[i] = key] = val])
  ELSE JObj(Append(d.k, key), Append(d.v, val))

(***************************************************************************)
(* json.loads                                                              *)
(***************************************************************************)
RECURSIVE SkipWs(_, _)
SkipWs(s, i) == IF i <= Len(s) /\ IsWs(s[i]) THEN SkipWs(s, i + 1) ELSE i

RECURSIVE SkipDigits(_, _)
SkipDigits(s, i) == IF i <= Len(s) /\ s[i] \in Digits THEN SkipDigits(s, i + 1) ELSE i

\* a failed decode (json.JSONDecodeError)
ParseFail == [ok |-> FALSE, v |-> JNull, i |-> 0]
ParseOk(val, next) == [ok |-> TRUE, v |-> val, i |-> next]

\* json.decoder.scanstring (strict): i is the index after the opening quote
EscapeOf(c) ==
  CASE c = "n" -> "\n" [] c = "t" -> "\t" [] c = "r" -> "\r"
    [] c = "b" -> "<U+0008>" [] c = "f" -> "\f" [] OTHER -> c
RECURSIVE ScanString(_, _, _)
ScanString(s, i, acc) ==
  IF i > Len(s) THEN ParseFail
  ELSE IF s[i] = "\"" THEN ParseOk(JStr(acc), i + 1)
  ELSE IF s[i] \in {"\n", "\t", "\r"} THEN ParseFail
  ELSE IF s[i] = "\\"
       THEN IF i + 1 <= Len(s) /\ s[i + 1] \in {"\"", "\\", "/", "b", "f", "n", "r", "t"}
            THEN ScanString(s, i + 2, Append(acc, EscapeOf(s[i + 1])))
            ELSE ParseFail
  ELSE ScanString(s, i + 1, Append(acc, s[i]))

\* json.scanner NUMBER_RE: (-?(?:0|[1-9]\d*))(\.\d+)?([eE][-+]?\d+)?
\* the index after the integer part that starts at d, 0 when there is none
NumberIntEnd(s, d) ==
  IF d > Len(s) \/ s[d] \notin Digits THEN 0
  ELSE IF s[d] = "0" THEN d + 1 ELSE SkipDigits(s, d)
\* the index after the optional fraction
NumberFracEnd(s, intEnd) ==
  IF intEnd + 1 <= Len(s) /\ s[intEnd] = "." /\ s[intEnd + 1] \in Digits
  THEN SkipDigits(s, intEnd + 1) ELSE intEnd
\* the index of the first digit an exponent would have, 0 without e or E
NumberExpDigits(s, fracEnd) ==
  IF fracEnd + 1 <= Len(s) /\ s[fracEnd] \in {"e", "E"}
  THEN (IF s[fracEnd + 1] \in {"+", "-"} THEN fracEnd + 2 ELSE fracEnd + 1)
  ELSE 0
\* the index after the optional exponent
NumberExpEnd(s, fracEnd, e) ==
  IF e # 0 /\ e <= Len(s) /\ s[e] \in Digits THEN SkipDigits(s, e) ELSE fracEnd
NumberUpTo(s, i, expEnd) == ParseOk(JNum(SubSeq(s, i, expEnd - 1)), expEnd)
NumberAfterFrac(s, i, fracEnd) ==
  NumberUpTo(s, i, NumberExpEnd(s, fracEnd, NumberExpDigits(s, fracEnd)))
NumberAfterInt(s, i, intEnd) ==
  IF intEnd = 0 THEN ParseFail ELSE NumberAfterFrac(s, i, NumberFracEnd(s, intEnd))
ScanNumber(s, i) == NumberAfterInt(s, i, NumberIntEnd(s, IF s[i] = "-" THEN i + 1 ELSE i))

LitNull == <<"n","u","l","l">>
LitTrue == <<"t","r","u","e">>
LitFalse == <<"f","a","l","s","e">>
LitNaN == <<"N","a","N">>
LitInf == <<"I","n","f","i","n","i","t","y">>

\* json.scanner py_make_scanner._scan_once, with JSONObject and JSONArray
RECURSIVE ScanOnce(_, _)
RECURSIVE ScanMembers(_, _, _)
RECURSIVE ScanElements(_, _, _)
\* a number, or one of the constants NaN, Infinity, -Infinity
NumberOrConstant(s, i, num) ==
  IF num.ok THEN num
  ELSE IF MatchAt(s, i, LitNaN) THEN ParseOk(JNum(LitNaN), i + 3)
  ELSE IF MatchAt(s, i, LitInf) THEN ParseOk(JNum(LitInf), i + 8)
  ELSE IF MatchAt(s, i, <<"-">> \o LitInf) THEN ParseOk(JNum(<<"-">> \o LitInf), i + 9)
  ELSE ParseFail
\* JSONObject: j is the index after '{' and the white space behind it
ObjectAt(s, j) ==
  IF j > Len(s) THEN ParseFail
  ELSE IF s[j] = "}" THEN ParseOk(JObj(<<>>, <<>>), j + 1)
  ELSE IF s[j] # "\"" THEN ParseFail
  ELSE ScanMembers(s, j, JObj(<<>>, <<>>))
\* JSONArray: j is the index after '[' and the white space behind it
ArrayAt(s, j) ==
  IF j <= Len(s) /\ s[j] = "]" THEN ParseOk(JList(<<>>), j + 1)
  ELSE ScanElements(s, j, <<>>)
ScanOnce(s, i) ==
  IF i > Len(s) THEN ParseFail
  ELSE CASE s[i] = "\"" -> ScanString(s, i + 1, <<>>)
         [] s[i] = "{" -> The({ObjectAt(s, j) : j \in {SkipWs(s, i + 1)}})
         [] s[i] = "[" -> The({ArrayAt(s, j) : j \in {SkipWs(s, i + 1)}})
         [] s[i] = "n" /\ MatchAt(s, i, LitNull) -> ParseOk(JNull, i + 4)
         [] s[i] = "t" /\ MatchAt(s, i, LitTrue) -> ParseOk(JBool(LitTrue), i + 4)
         [] s[i] = "f" /\ MatchAt(s, i, LitFalse) -> ParseOk(JBool(LitFalse), i + 5)
         [] OTHER -> NumberOrConstant(s, i, ScanNumber(s, i))
\* after a member of an object: m is the index of what follows its value
AfterMember(s, d, m, q) ==
  IF m > Len(s) THEN ParseFail
  ELSE IF s[m] = "}" THEN ParseOk(d, m + 1)
  ELSE IF s[m] # "," THEN ParseFail
  ELSE IF q > Len(s) \/ s[q] # "\"" THEN ParseFail
  ELSE ScanMembers(s, q, d)
MemberEnd(s, d, m) == The({AfterMember(s, d, m, q) : q \in {SkipWs(s, m + 1)}})
MemberValue(s, d, key, val) ==
  IF ~val.ok THEN ParseFail
  ELSE The({MemberEnd(s, d2, m) : d2 \in {DictPut(d, key, val.v)}, m \in {SkipWs(s, val.i)}})
MemberColon(s, d, key, c) ==
  IF c > Len(s) \/ s[c] # ":" THEN ParseFail
  ELSE The({MemberValue(s, d, key, val) : val \in {ScanOnce(s, SkipWs(s, c + 1))}})
MemberKey(s, d, key) ==
  IF ~key.ok THEN ParseFail
  ELSE The({MemberColon(s, d, key.v.s, c) : c \in {SkipWs(s, key.i)}})
\* i is the index of the opening quote of the next key
ScanMembers(s, i, d) ==
  The({MemberKey(s, d, key) : key \in {ScanString(s, i + 1, <<>>)}})
\* after an element of an array: m is the index of what follows it
AfterElement(s, elems, m) ==
  IF m > Len(s) THEN ParseFail
  ELSE IF s[m] = "]" THEN ParseOk(JList(elems), m + 1)
  ELSE IF s[m] # "," THEN ParseFail
  ELSE The({ScanElements(s, i, elems) : i \in {SkipWs(s, m + 1)}})
ElementValue(s, elems, val) ==
  IF ~val.ok THEN ParseFail
  ELSE The({AfterElement(s, e2, m) : e2 \in {Append(elems, val.v)}, m \in {SkipWs(s, val.i)}})
\* i is the index of the next element
ScanElements(s, i, elems) ==
  The({ElementValue(s, elems, val) : val \in {ScanOnce(s, i)}})

\* the whole text must be one value: trailing data raises
WholeValue(s, r) == IF r.ok /\ SkipWs(s, r.i) = Len(s) + 1 THEN r ELSE ParseFail
\* json.loads(s): [ok, v]; ok is FALSE where json.loads raises
LoadsWhole(t) == The({WholeValue(t, r) : r \in {ScanOnce(t, SkipWs(t, 1))}})
json_loads(s) == The({LoadsWhole(t) : t \in {s}})

(***************************************************************************)
(* utils.extract_json_substring                                            *)
(***************************************************************************)
\* the index of the first '{' or '[' of text, 0 when there is none
FirstBracket(text) ==
  IF \E i \in 1..Len(text) : text[i] \in {"{", "["}
  THEN CHOOSE i \in 1..Len(text) :
         /\ text[i] \in {"{", "["}
         /\ \A j \in 1..(i - 1) : text[j] \notin {"{", "["}
  ELSE 0

\* the while loop: depth is len(stack); the result is [found, text]
RECURSIVE BalanceScan(_, _, _, _)
BalanceScan(text, start_idx, i, depth) ==
  IF i > Len(text) THEN [found |-> FALSE, text |-> <<>>]
  ELSE IF text[i] \in {"{", "["} THEN BalanceScan(text, start_idx, i + 1, depth + 1)
  ELSE IF text[i] \in {"}", "]"}
       THEN IF depth = 0 THEN [found |-> FALSE, text |-> <<>>]
            ELSE IF depth = 1 /\ json_loads(SubSeq(text, start_idx, i)).ok
                 THEN [found |-> TRUE, text |-> SubSeq(text, start_idx, i)]
                 ELSE BalanceScan(text, start_idx, i + 1, depth - 1)
  ELSE BalanceScan(text, start_idx, i + 1, depth)

\* a faulty variant of BalanceFrom: a scan that fails is started again from
\* the next opening bracket
RECURSIVE BalanceRestart(_, _)
BalanceRestart(text, start_idx) ==
  IF start_idx = 0 \/ start_idx > Len(text) THEN [found |-> FALSE, text |-> <<>>]
  ELSE IF text[start_idx] \notin {"{", "["} THEN BalanceRestart(text, start_idx + 1)
  ELSE IF BalanceScan(text, start_idx, start_idx, 0).found
       THEN BalanceScan(text, start_idx, start_idx, 0)
  ELSE BalanceRestart(text, start_idx + 1)

\* the while loop from start_idx, when the for loop found one
BalanceFrom(text, start_idx) ==
  IF start_idx = 0 THEN [found |-> FALSE, text |-> <<>>]
  ELSE BalanceScan(text, start_idx, start_idx, 0)

\* a faulty variant of extract_json_substring: a text that is JSON as a whole
\* is returned whole
extract_json_value(text) ==
  IF text = <<>> THEN [found |-> FALSE, text |-> <<>>]
  ELSE IF json_loads(text).ok THEN [found |-> TRUE, text |-> text]
  ELSE BalanceFrom(text, FirstBracket(text))

\* extract_json_substring(text): found is FALSE where it returns None
extract_json_substring(text) ==
  IF text = <<>> THEN [found |-> FALSE, text |-> <<>>]
  ELSE BalanceFrom(text, FirstBracket(text))

(***************************************************************************)
(* Texts of the program                                                    *)
(***************************************************************************)
\* planner-agent
PlannerAgent ==
  <<"p","l","a","n","n","e","r","-","a","g","e","n","t">>
\* research-agent
ResearchAgent ==
  <<"r","e","s","e","a","r","c","h","-","a","g","e","n","t">>
\* main-agent
MainAgent ==
  <<"m","a","i","n","-","a","g","e","n","t">>
\* critic-agent
CriticAgent ==
  <<"c","r","i","t","i","c","-","a","g","e","n","t">>
\* helper-agent: a role name with no entry in SUB_PROMPTS
HelperAgent ==
  <<"h","e","l","p","e","r","-","a","g","e","n","t">>
\* ROLE:
RolePrefix ==
  <<"R","O","L","E",":"," ">>
\* \nINSTRUCTIONS: Return only the requested output (JSON or plain text per
\* task). DO NOT echo role text.
RoleInstructions ==
  <<"\n","I","N","S","T","R","U","C","T","I","O","N","S",":"," ","R","e","t",
    "u","r","n"," ","o","n","l","y"," ","t","h","e"," ","r","e","q","u","e",
    "s","t","e","d"," ","o","u","t","p","u","t"," ","(","J","S","O","N"," ",
    "o","r"," ","p","l","a","i","n"," ","t","e","x","t"," ","p","e","r"," ",
    "t","a","s","k",")","."," ","D","O"," ","N","O","T"," ","e","c","h","o",
    " ","r","o","l","e"," ","t","e","x","t",".">>
\* SUB_PROMPTS["planner-agent"], its first 301 characters:
\* normalize_short(..., 300) reads no further
PlannerPrompt ==
  <<"Y","o","u"," ","a","r","e"," ","P","l","a","n","n","e","r","-","A","g",
    "e","n","t","."," ","I","n","p","u","t",":"," ","a","n"," ","'","o","b",
    "j","e","c","t","i","v","e","'"," ","a","n","d"," ","o","p","t","i","o",
    "n","a","l"," ","'","c","o","n","s","t","r","a","i","n","t","s","'",".",
    " ","O","u","t","p","u","t",":"," ","J","S","O","N"," ","a","r","r","a",
    "y"," ","O","N","L","Y",","," ","n","o"," ","e","x","t","r","a"," ","t",
    "e","x","t","."," ","E","a","c","h"," ","e","l","e","m","e","n","t"," ",
    "M","U","S","T"," ","b","e"," ","a","n"," ","o","b","j","e","c","t"," ",
    "w","i","t","h",":"," ","{"," ","'","s","t","e","p","_","i","d","'",":",
    " ","<","s","t","r","i","n","g",">",","," ","'","d","e","s","c","r","i",
    "p","t","i","o","n","'",":"," ","<","s","t","r","i","n","g",">",","," ",
    "'","a","s","s","i","g","n","e","d","_","t","o","'",":"," ","(","'","r",
    "e","s","e","a","r","c","h","-","a","g","e","n","t","'"," ","|"," ","'",
    "m","a","i","n","-","a","g","e","n","t","'"," ","|"," ","'","c","r","i",
    "t","i","c","-","a","g","e","n","t","'",")",","," ","'","e","x","p","e",
    "c","t","e","d","_","a","r","t","i","f","a","c","t","'",":"," ","<","s",
    "t","r","i","n","g",">"," ","}","."," ","S","T","R">>
\* SUB_PROMPTS["research-agent"], its first 301 characters:
\* normalize_short(..., 300) reads no further
ResearchPrompt ==
  <<"Y","o","u"," ","a","r","e"," ","R","e","s","e","a","r","c","h","-","A",
    "g","e","n","t","."," ","I","n","p","u","t",":"," ","a"," ","s","h","o",
    "r","t"," ","r","e","s","e","a","r","c","h"," ","t","a","s","k","."," ",
    "F","o","l","l","o","w"," ","r","u","n","t","i","m","e"," ","p","r","e",
    "f","e","r","e","n","c","e",":"," ","d","e","f","a","u","l","t"," ","i",
    "s"," ","F","i","r","e","c","r","a","w","l"," ","M","C","P"," ","(","f",
    "i","r","e","c","r","a","w","l",".","*",")",";"," ","w","h","e","n"," ",
    "'","D","e","e","p"," ","R","e","s","e","a","r","c","h","'"," ","i","s",
    " ","e","n","a","b","l","e","d"," ","y","o","u"," ","M","U","S","T"," ",
    "c","a","l","l"," ","t","h","e"," ","b","u","i","l","t","-","i","n"," ",
    "i","n","t","e","r","n","e","t","_","s","e","a","r","c","h"," ","t","o",
    "o","l"," ","(","T","a","v","i","l","y",")"," ","a","t"," ","l","e","a",
    "s","t"," ","o","n","c","e","."," ","I","f"," ","p","r","e","f","e","r",
    "r","e","d"," ","t","o","o","l"," ","i","s"," ","u","n","a","v","a","i",
    "l","a","b","l","e",","," ","f","a","l","l"," ","b","a","c","k"," ","t",
    "o"," ","t","h","e"," ","o","t","h","e","r"," ","i","f"," ","p","r","e",
    "s","e","n","t","."," ","I","f"," ","N","O"," ","t">>
\* SUB_PROMPTS["critic-agent"], its first 301 characters:
\* normalize_short(..., 300) reads no further
CriticPrompt ==
  <<"Y","o","u"," ","a","r","e"," ","C","r","i","t","i","c","-","A","g","e",
    "n","t","."," ","I","n","p","u","t",":"," ","c","a","n","d","i","d","a",
    "t","e","_","a","n","s","w","e","r"," ","+"," ","r","e","s","e","a","r",
    "c","h","_","j","s","o","n","."," ","O","u","t","p","u","t",":"," ","J",
    "S","O","N"," ","o","b","j","e","c","t"," ","O","N","L","Y"," ","w","i",
    "t","h"," ","E","X","A","C","T"," ","k","e","y","s",":"," ","{"," ","'",
    "v","e","r","d","i","c","t","'",":"," ","(","'","A","C","C","E","P","T",
    "'"," ","|"," ","'","R","E","V","I","S","E","'"," ","|"," ","'","R","E",
    "J","E","C","T","'",")",","," ","'","f","i","x","e","s","'",":"," ","[",
    "<","s","t","r","i","n","g",">","]",","," ","'","n","o","t","e","s","'",
    ":"," ","<","s","t","r","i","n","g",">",","," ","'","q","u","a","l","i",
    "t","y","_","s","c","o","r","e","'",":"," ","<","0",".",".","1","0","0",
    ">"," ","}","."," ","C","h","e","c","k","s"," ","t","o"," ","p","e","r",
    "f","o","r","m"," ","B","E","F","O","R","E"," ","v","e","r","d","i","c",
    "t",":"," ","a","n","s","w","e","r"," ","i","s"," ","s","u","p","p","o",
    "r","t","e","d"," ","b","y"," ","e","v","i","d","e","n","c","e"," ","(",
    "<U+2265>","2"," ","i","n","d","e","p","e","n","d","e","n">>
\* SUB_PROMPTS["main-agent"], its first 301 characters:
\* normalize_short(..., 300) reads no further
MainPrompt ==
  <<"Y","o","u"," ","a","r","e"," ","M","a","i","n","-","A","g","e","n","t",
    "."," ","I","n","p","u","t",":"," ","r","e","s","e","a","r","c","h","_",
    "j","s","o","n"," ","+"," ","c","r","i","t","i","c"," ","r","e","p","o",
    "r","t","."," ","O","u","t","p","u","t",":"," ","P","L","A","I","N"," ",
    "T","E","X","T"," ","O","N","L","Y"," ","(","n","o"," ","J","S","O","N",
    ")","."," ","W","r","i","t","e"," ","a"," ","c","l","e","a","r",","," ",
    "d","i","r","e","c","t"," ","e","x","p","l","a","n","a","t","i","o","n",
    " ","a","n","s","w","e","r","i","n","g"," ","t","h","e"," ","u","s","e",
    "r","<U+2019>","s"," ","q","u","e","s","t","i","o","n",".","\n","R","u",
    "l","e","s",":","\n","-"," ","D","e","f","a","u","l","t"," ","t","o"," ",
    "e","x","p","l","a","n","a","t","o","r","y"," ","p","r","o","s","e",".",
    " ","O","n","l","y"," ","u","s","e"," ","b","u","l","l","e","t","s","/",
    "s","t","e","p","s"," ","i","f"," ","t","h","e"," ","q","u","e","s","t",
    "i","o","n"," ","a","s","k","s"," ","f","o","r"," ","t","h","e","m",".",
    "\n","-"," ","A","f","t","e","r"," ","f","a","c","t","u","a","l"," ","c",
    "l","a","i","m","s",","," ","a","d","d"," ","b","r","a","c","k","e","t",
    "e","d"," ","c","i","t","a","t","i","o","n"," ","I","D","s">>
\* <|tool_call
ToolCallMarker ==
  <<"<","|","t","o","o","l","_","c","a","l","l">>
\* <|tool_calls_section
ToolCallsSectionMarker ==
  <<"<","|","t","o","o","l","_","c","a","l","l","s","_","s","e","c","t","i",
    "o","n">>
\* functions.write_todos
WriteTodosMarker ==
  <<"f","u","n","c","t","i","o","n","s",".","w","r","i","t","e","_","t","o",
    "d","o","s">>
\* "objective"
ObjectiveKey ==
  <<"\"","o","b","j","e","c","t","i","v","e","\"">>
\* "constraints"
ConstraintsKey ==
  <<"\"","c","o","n","s","t","r","a","i","n","t","s","\"">>
\* objective:
ObjectiveColon ==
  <<"o","b","j","e","c","t","i","v","e",":">>
\* i'll research
IllResearch ==
  <<"i","'","l","l"," ","r","e","s","e","a","r","c","h">>
\* i will research
IWillResearch ==
  <<"i"," ","w","i","l","l"," ","r","e","s","e","a","r","c","h">>
\* ...
Ellipsis ==
  <<".",".",".">>
\* description
KeyDescription ==
  <<"d","e","s","c","r","i","p","t","i","o","n">>
\* "description"
QuotedDescription ==
  <<"\"","d","e","s","c","r","i","p","t","i","o","n","\"">>
\* method
KeyMethod ==
  <<"m","e","t","h","o","d">>
\* tools_used
KeyToolsUsed ==
  <<"t","o","o","l","s","_","u","s","e","d">>
\* citations
KeyCitations ==
  <<"c","i","t","a","t","i","o","n","s">>
\* sources
KeySources ==
  <<"s","o","u","r","c","e","s">>
\* evidence
KeyEvidence ==
  <<"e","v","i","d","e","n","c","e">>
\* evidence_table
KeyEvidenceTable ==
  <<"e","v","i","d","e","n","c","e","_","t","a","b","l","e">>
\* answer
KeyAnswer ==
  <<"a","n","s","w","e","r">>
\* short_answer
KeyShortAnswer ==
  <<"s","h","o","r","t","_","a","n","s","w","e","r">>
\* verdict
KeyVerdict ==
  <<"v","e","r","d","i","c","t">>
\* fixes
KeyFixes ==
  <<"f","i","x","e","s">>
\* notes
KeyNotes ==
  <<"n","o","t","e","s">>
\* REVISE
TextREVISE ==
  <<"R","E","V","I","S","E">>
\* Critic output unparsable — request a follow-up.
TextCriticUnparsable ==
  <<"C","r","i","t","i","c"," ","o","u","t","p","u","t"," ","u","n","p","a",
    "r","s","a","b","l","e"," ","<U+2014>"," ","r","e","q","u","e","s","t",
    " ","a"," ","f","o","l","l","o","w","-","u","p",".">>
\* internet_search
TextInternetSearch ==
  <<"i","n","t","e","r","n","e","t","_","s","e","a","r","c","h">>
\* firecrawl
TextFirecrawl ==
  <<"f","i","r","e","c","r","a","w","l">>
\* Research returned no citations/sources. Tools may be unavailable or
\* prompts need tuning.
WarnNoEvidence ==
  <<"R","e","s","e","a","r","c","h"," ","r","e","t","u","r","n","e","d"," ",
    "n","o"," ","c","i","t","a","t","i","o","n","s","/","s","o","u","r","c",
    "e","s","."," ","T","o","o","l","s"," ","m","a","y"," ","b","e"," ","u",
    "n","a","v","a","i","l","a","b","l","e"," ","o","r"," ","p","r","o","m",
    "p","t","s"," ","n","e","e","d"," ","t","u","n","i","n","g",".">>
\* Deep Research requested, but Tavily internet_search tool was not used.
WarnNoTavily ==
  <<"D","e","e","p"," ","R","e","s","e","a","r","c","h"," ","r","e","q","u",
    "e","s","t","e","d",","," ","b","u","t"," ","T","a","v","i","l","y"," ",
    "i","n","t","e","r","n","e","t","_","s","e","a","r","c","h"," ","t","o",
    "o","l"," ","w","a","s"," ","n","o","t"," ","u","s","e","d",".">>
\* Research did not use Firecrawl tools. Check Firecrawl availability or
\* prompts.
WarnNoFirecrawl ==
  <<"R","e","s","e","a","r","c","h"," ","d","i","d"," ","n","o","t"," ","u",
    "s","e"," ","F","i","r","e","c","r","a","w","l"," ","t","o","o","l","s",
    "."," ","C","h","e","c","k"," ","F","i","r","e","c","r","a","w","l"," ",
    "a","v","a","i","l","a","b","i","l","i","t","y"," ","o","r"," ","p","r",
    "o","m","p","t","s",".">>

(***************************************************************************)
(* str(x) and json.dumps(x) of a parsed value                              *)
(***************************************************************************)
\* str(int(lexeme)) for an integer lexeme; a float keeps its lexeme (the
\* inputs of this model hold no float whose repr differs from its lexeme)
NumText(lex) ==
  IF lex = <<"-", "0">> THEN <<"0">>
  ELSE IF lex = LitNaN THEN <<"n","a","n">>
  ELSE IF lex = LitInf THEN <<"i","n","f">>
  ELSE IF lex = <<"-">> \o LitInf THEN <<"-","i","n","f">>
  ELSE lex

RECURSIVE EscapeWith(_, _)
EscapeWith(s, quote) ==
  IF s = <<>> THEN <<>>
  ELSE (CASE Head(s) = quote -> <<"\\", quote>>
          [] Head(s) = "\\" -> <<"\\", "\\">>
          [] Head(s) = "\n" -> <<"\\", "n">>
          [] Head(s) = "\t" -> <<"\\", "t">>
          [] Head(s) = "\r" -> <<"\\", "r">>
          [] OTHER -> <<Head(s)>>) \o EscapeWith(Tail(s), quote)

\* repr(s) of a str: single quotes, unless s holds ' and no "
StrRepr(s) ==
  IF (\E i \in 1..Len(s) : s[i] = "'") /\ ~(\E i \in 1..Len(s) : s[i] = "\"")
  THEN <<"\"">> \o EscapeWith(s, "\"") \o <<"\"">>
  ELSE <<"'">> \o EscapeWith(s, "'") \o <<"'">>

RECURSIVE PyRepr(_)
RECURSIVE PyReprItems(_, _, _)
PyReprItems(keys, vals, i) ==
  IF i > Len(vals) THEN <<>>
  ELSE (IF i > 1 THEN <<",", " ">> ELSE <<>>)
       \o (IF keys # <<>> THEN StrRepr(keys[i]) \o <<":", " ">> ELSE <<>>)
       \o PyRepr(vals[i]) \o PyReprItems(keys, vals, i + 1)
PyRepr(x) ==
  CASE x.t = "null" -> <<"N","o","n","e">>
    [] x.t = "bool" -> IF x.s = LitTrue THEN <<"T","r","u","e">> ELSE <<"F","a","l","s","e">>
    [] x.t = "num" -> NumText(x.s)
    [] x.t = "str" -> StrRepr(x.s)
    [] x.t = "list" -> <<"[">> \o PyReprItems(<<>>, x.v, 1) \o <<"]">>
    [] x.t = "obj" -> <<"{">> \o PyReprItems(x.k, x.v, 1) \o <<"}">>

\* str(x)
PyStr(x) == IF x.t = "str" THEN x.s ELSE PyRepr(x)

\* json.dumps(x) with the default separators
RECURSIVE json_dumps(_)
RECURSIVE DumpItems(_, _, _)
DumpItems(keys, vals, i) ==
  IF i > Len(vals) THEN <<>>
  ELSE (IF i > 1 THEN <<",", " ">> ELSE <<>>)
       \o (IF keys # <<>>
           THEN <<"\"">> \o EscapeWith(keys[i], "\"") \o <<"\"", ":", " ">>
           ELSE <<>>)
       \o json_dumps(vals[i]) \o DumpItems(keys, vals, i + 1)
json_dumps(x) ==
  CASE x.t = "null" -> LitNull
    [] x.t = "bool" -> x.s
    [] x.t = "num" -> IF x.s \in {LitNaN, LitInf, <<"-">> \o LitInf} THEN x.s ELSE NumText(x.s)
    [] x.t = "str" -> <<"\"">> \o EscapeWith(x.s, "\"") \o <<"\"">>
    [] x.t = "list" -> <<"[">> \o DumpItems(<<>>, x.v, 1) \o <<"]">>
    [] x.t = "obj" -> <<"{">> \o DumpItems(x.k, x.v, 1) \o <<"}">>

(***************************************************************************)
(* utils.extract_first_step_description                                    *)
(***************************************************************************)
\* a return value that may be None: some is FALSE for None
Absent == [some |-> FALSE, v |-> JNull]
Present(val) == [some |-> TRUE, v |-> val]

\* the index of the first element of vals that is a non-empty list whose
\* first entry is a dict (the loop over values(), which breaks only
\* there), 0 when there is none
FirstStepList(vals) ==
  LET Hit(i) == IsList(vals[i]) /\ vals[i].v # <<>> /\ IsDict(vals[i].v[1])
  IN  IF \E i \in 1..Len(vals) : Hit(i)
      THEN CHOOSE i \in 1..Len(vals) : Hit(i) /\ \A j \in 1..(i - 1) : ~Hit(j)
      ELSE 0

\* a or b
PyOr(a, b) == IF Truthy(a) THEN a ELSE b

\* a faulty variant of DescriptionOrDump: the description is not read
DumpAlways(first) == JStr(json_dumps(first))

\* first.get("description") or json.dumps(first), for a dict
DescriptionOrDump(first) ==
  PyOr(DictGet(first, KeyDescription, None), JStr(json_dumps(first)))

\* the loop over parsed.values(): i is the index FirstStepList found
StepOfValues(vals, i) ==
  IF i # 0 THEN Present(DescriptionOrDump(vals[i].v[1])) ELSE Absent

\* the body of the try block, for what json.loads returned
StepOfParsed(parsed) ==
  IF ~parsed.ok THEN Absent
  ELSE IF IsList(parsed.v) /\ parsed.v.v # <<>> /\ IsDict(parsed.v.v[1])
       THEN Present(DescriptionOrDump(parsed.v.v[1]))
  ELSE IF IsDict(parsed.v) THEN StepOfValues(parsed.v.v, FirstStepList(parsed.v.v))
  ELSE Absent

\* the try block: what it returns, Absent when it falls through or raises
StepFromJson(planner_text) == StepOfParsed(json_loads(planner_text))

\* re.search(r'"description"\s*:\s*"([^"]+)"', text) tried at index i:
\* the index of the captured group, 0 when there is no match at i
RECURSIVE SkipNonQuote(_, _)
SkipNonQuote(s, i) == IF i <= Len(s) /\ s[i] # "\"" THEN SkipNonQuote(s, i + 1) ELSE i
IsReSpace(c) == c \in {" ", "\t", "\n", "\r", "\f"}
RECURSIVE SkipReSpace(_, _)
SkipReSpace(s, i) == IF i <= Len(s) /\ IsReSpace(s[i]) THEN SkipReSpace(s, i + 1) ELSE i
\* ([^"]+)" from g: e is the index after the run of non-quotes
DescGroupClosed(s, g, e) == e > g /\ e <= Len(s)
\* \s*"([^"]+)" : q is the index after the white space
DescAfterColon(s, q) ==
  IF q <= Len(s) /\ s[q] = "\"" /\ DescGroupClosed(s, q + 1, SkipNonQuote(s, q + 1))
  THEN q + 1 ELSE 0
\* \s*: : c is the index after the white space
DescAfterKey(s, c) ==
  IF c <= Len(s) /\ s[c] = ":" THEN DescAfterColon(s, SkipReSpace(s, c + 1)) ELSE 0
DescGroupStart(s, i) ==
  IF MatchAt(s, i, QuotedDescription)
  THEN DescAfterKey(s, SkipReSpace(s, i + Len(QuotedDescription)))
  ELSE 0
\* the leftmost index where the pattern matches, 0 when it matches nowhere
FirstDescMatch(s) ==
  IF \E i \in 1..Len(s) : DescGroupStart(s, i) # 0
  THEN CHOOSE i \in 1..Len(s) :
         DescGroupStart(s, i) # 0 /\ \A j \in 1..(i - 1) : DescGroupStart(s, j) = 0
  ELSE 0
\* m.group(1)
DescGroup(s, g) == Present(JStr(SubSeq(s, g, SkipNonQuote(s, g) - 1)))
DescAt(s, i) == IF i = 0 THEN Absent ELSE DescGroup(s, DescGroupStart(s, i))
DescriptionRegex(s) == DescAt(s, FirstDescMatch(s))

StepNormChars == 400
StepKeepChars == 350
\* a faulty variant of StepOfText: the normalized text is not cut again
StepOfTextUncut(t) ==
  IF t # <<>> THEN Present(JStr(t \o Ellipsis)) ELSE Absent
\* (t[:350] + "...") if t else None
StepOfText(t) ==
  IF t # <<>> THEN Present(JStr(Take(t, StepKeepChars) \o Ellipsis)) ELSE Absent
StepElseText(planner_text, m) ==
  IF m.some THEN m ELSE StepOfText(normalize_short(planner_text, StepNormChars))
StepElseRegex(planner_text, step) ==
  IF step.some THEN step ELSE StepElseText(planner_text, DescriptionRegex(planner_text))
extract_first_step_description(planner_text) ==
  StepElseRegex(planner_text, StepFromJson(planner_text))

(***************************************************************************)
(* orchestrator.stream_subagent: the envelope and the fragment filter      *)
(***************************************************************************)
RegisteredRoles == {"planner-agent", "research-agent", "main-agent", "critic-agent"}
RoleNames == RegisteredRoles \cup {"helper-agent"}

\* the characters of a role name
RoleText(role_name) ==
  CASE role_name = "planner-agent" -> PlannerAgent
    [] role_name = "research-agent" -> ResearchAgent
    [] role_name = "main-agent" -> MainAgent
    [] role_name = "critic-agent" -> CriticAgent
    [] role_name = "helper-agent" -> HelperAgent

\* SUB_PROMPTS.get(role_name, "")
SUB_PROMPTS_get(role_name) ==
  CASE role_name = "planner-agent" -> PlannerPrompt
    [] role_name = "research-agent" -> ResearchPrompt
    [] role_name = "main-agent" -> MainPrompt
    [] role_name = "critic-agent" -> CriticPrompt
    [] OTHER -> <<>>

role_invocation(role_name) == RolePrefix \o RoleText(role_name) \o RoleInstructions

PromptMaxChars == 300
normalized_role_invocation ==
  [r \in RoleNames |-> normalize_short(role_invocation(r), DefaultMaxChars)]
normalized_registered_prompt ==
  [r \in RoleNames |-> normalize_short(SUB_PROMPTS_get(r), PromptMaxChars)]

\* a faulty variant of HasToolMarker: only the last of the three markers
HasTodosMarker(t) == Contains(t, WriteTodosMarker)

\* any(marker in t for marker in (...))
HasToolMarker(t) ==
  \E marker \in {ToolCallMarker, ToolCallsSectionMarker, WriteTodosMarker} :
    Contains(t, marker)

\* a faulty variant of EchoesInvocation: equality instead of containment
EqualsInvocation(t_norm, role_name) ==
  /\ normalized_role_invocation[role_name] # <<>>
  /\ t_norm = normalized_role_invocation[role_name]

\* normalized_role_invocation and normalized_role_invocation in t_norm
EchoesInvocation(t_norm, role_name) ==
  /\ normalized_role_invocation[role_name] # <<>>
  /\ Contains(t_norm, normalized_role_invocation[role_name])

\* a faulty variant of EchoesPrompt: an empty prompt is compared as well
EchoesPromptUnguarded(t_norm, role_name) ==
  Contains(t_norm, normalized_registered_prompt[role_name])

\* normalized_registered_prompt and normalized_registered_prompt in t_norm
EchoesPrompt(t_norm, role_name) ==
  /\ normalized_registered_prompt[role_name] # <<>>
  /\ Contains(t_norm, normalized_registered_prompt[role_name])

\* any(key in t.lower() for key in (...))
HasPlannerEcho(t) ==
  \E key \in {ObjectiveKey, ConstraintsKey, ObjectiveColon} : Contains(Lower(t), key)

\* re.match(r"^\s*i('ll| will) research", t.strip().lower())
FillerAt(x, b) == MatchAt(x, b, IllResearch) \/ MatchAt(x, b, IWillResearch)
FillerIn(x) == FillerAt(x, SkipReSpace(x, 1))
\* a faulty variant of IsResearchFiller: the text is not lowercased
IsFillerCased(t) == FillerIn(Strip(t))
IsResearchFiller(t) == FillerIn(Lower(Strip(t)))

MinFragmentChars == 3
\* a faulty variant of DiscardedNorm: without the test of seen_norms
DiscardedUnseen(t, t_norm, role_name, seen_norms) ==
  \/ HasToolMarker(t)
  \/ EchoesInvocation(t_norm, role_name)
  \/ EchoesPrompt(t_norm, role_name)
  \/ HasPlannerEcho(t)
  \/ IsResearchFiller(t)
  \/ Len(Strip(t)) < MinFragmentChars

\* the "continue" tests of the loop body: TRUE when t is dropped
DiscardedNorm(t, t_norm, role_name, seen_norms) ==
  \/ HasToolMarker(t)
  \/ EchoesInvocation(t_norm, role_name)
  \/ EchoesPrompt(t_norm, role_name)
  \/ HasPlannerEcho(t)
  \/ IsResearchFiller(t)
  \/ t_norm \in seen_norms
  \/ Len(Strip(t)) < MinFragmentChars
Discarded(t, role_name, seen_norms) ==
  \E t_norm \in {normalize_short(t, DefaultMaxChars)} :
    DiscardedNorm(t, t_norm, role_name, seen_norms)

\* a faulty variant of MsgTexts: the reasoning is taken before the content
MsgTextsReasoningFirst(m) ==
  (IF m.reasoning_content # <<>>
   THEN <<[t |-> m.reasoning_content, kind |-> "reasoning"]>> ELSE <<>>)
  \o (IF m.content # <<>> THEN <<[t |-> m.content, kind |-> "content"]>> ELSE <<>>)

\* one message (or a chunk that is no dict): its content, then its reasoning
MsgTexts(m) ==
  (IF m.content # <<>> THEN <<[t |-> m.content, kind |-> "content"]>> ELSE <<>>)
  \o (IF m.reasoning_content # <<>>
      THEN <<[t |-> m.reasoning_content, kind |-> "reasoning"]>> ELSE <<>>)

\* texts and kinds of one chunk: a chunk is [is_dict, messages]; a chunk that
\* is no dict with "messages" is read as one message
RECURSIVE ChunkTexts(_)
ChunkTexts(messages) ==
  IF messages = <<>> THEN <<>> ELSE MsgTexts(Head(messages)) \o ChunkTexts(Tail(messages))

(***************************************************************************)
(* orchestrator.run_conversation: the code between the stage invocations   *)
(***************************************************************************)
\* the inner try: json.loads(js), None where it raises
LoadedOrNone(parsed) == IF parsed.ok THEN parsed.v ELSE None
\* the except branch: js = extract_json_substring(raw); if js: ...
ParseExtracted(js) ==
  IF js.found /\ js.text # <<>> THEN LoadedOrNone(json_loads(js.text)) ELSE None
\* the outer try, for what json.loads(raw) returned
ParseElseExtract(raw, whole) ==
  IF whole.ok THEN whole.v ELSE ParseExtracted(extract_json_substring(raw))
\* try json.loads(raw); else json.loads(extract_json_substring(raw)); else None
ParseOrExtract(raw) == ParseElseExtract(raw, json_loads(raw))

parse_plan(planner_out) == ParseOrExtract(planner_out)
parse_research(research_out_raw) == ParseOrExtract(research_out_raw)
parse_critic(critic_out_raw) == ParseOrExtract(critic_out_raw)

\* an expression that may raise: exc is "" when it does not
Raised(exc) == [exc |-> exc, v |-> JNull]
Value(val) == [exc |-> "", v |-> val]

\* a faulty variant of StepOr: the user question whatever the step
QuestionAlways(step, user_question) == JStr(user_question)

\* extract_first_step_description(planner_out) or user_question
StepOr(step, user_question) ==
  IF step.some /\ Truthy(step.v) THEN step.v ELSE JStr(user_question)
StepOrQuestion(planner_out, user_question) ==
  StepOr(extract_first_step_description(planner_out), user_question)

\* the dict branch: i is the index FirstStepList found in plan.values()
FocusOfValues(plan, i, planner_out, user_question) ==
  IF i # 0 THEN DescriptionOrDump(plan.v[i].v[1])
  ELSE StepOrQuestion(planner_out, user_question)

\* research_focus, from the parsed plan
research_focus_of(plan, planner_out, user_question) ==
  IF Truthy(plan) /\ IsList(plan)
  THEN IF IsDict(plan.v[1]) THEN Value(DescriptionOrDump(plan.v[1]))
       ELSE Raised("AttributeError")
  ELSE IF Truthy(plan) /\ IsDict(plan)
  THEN Value(FocusOfValues(plan, FirstStepList(plan.v), planner_out, user_question))
  ELSE Value(StepOrQuestion(planner_out, user_question))

\* "tavily" if str(research_preference).lower().startswith("tav") else "firecrawl"
pref_of(research_preference) ==
  IF StartsWith(Lower(research_preference), <<"t","a","v">>) THEN "tavily" ELSE "firecrawl"

FallbackAnswerChars == 1000

\* a faulty variant of research_fallback: the raw text is cut but not normalized
research_fallback_raw(research_out_raw) ==
  JObj(<<KeyAnswer, KeyCitations, KeyMethod>>,
       <<JStr(Take(research_out_raw, FallbackAnswerChars)),
         JList(<<>>),
         JObj(<<KeyToolsUsed>>, <<JList(<<>>)>>)>>)

\* the fallback minimal structure
research_fallback(research_out_raw) ==
  JObj(<<KeyAnswer, KeyCitations, KeyMethod>>,
       <<JStr(normalize_short(research_out_raw, FallbackAnswerChars)),
         JList(<<>>),
         JObj(<<KeyToolsUsed>>, <<JList(<<>>)>>)>>)

\* if not research_json: research_json = the fallback
research_or_fallback(parsed, research_out_raw) ==
  IF Truthy(parsed) THEN parsed ELSE research_fallback(research_out_raw)
research_record(research_out_raw) ==
  research_or_fallback(parse_research(research_out_raw), research_out_raw)

\* a faulty variant of tools_of_mu: the names keep their case
tools_of_mu_cased(mu) ==
  IF IsList(mu) THEN [i \in 1..Len(mu.v) |-> PyStr(mu.v[i])] ELSE <<>>

\* [str(x).lower() for x in mu] if isinstance(mu, list)
tools_of_mu(mu) ==
  IF IsList(mu) THEN [i \in 1..Len(mu.v) |-> Lower(PyStr(mu.v[i]))] ELSE <<>>
\* research_json.get("method", {}).get("tools_used", []): .get raises on a
\* method that is no dict
tools_of_method(method) ==
  IF IsDict(method) THEN tools_of_mu(DictGet(method, KeyToolsUsed, JList(<<>>))) ELSE <<>>
\* the try block computing tools_used; any exception in it leaves []
tools_used_of(research_json) ==
  IF IsDict(research_json)
  THEN tools_of_method(DictGet(research_json, KeyMethod, JObj(<<>>, <<>>)))
  ELSE <<>>

\* a faulty variant of has_evidence_of: evidence and evidence_table are not read
has_evidence_cited(research_json) ==
  IF ~IsDict(research_json) THEN Raised("AttributeError")
  ELSE Value(JBool(
         IF \E key \in {KeyCitations, KeySources} :
              Truthy(DictGet(research_json, key, None))
         THEN LitTrue ELSE LitFalse))

\* has_evidence: research_json.get raises on a value that is no dict
has_evidence_of(research_json) ==
  IF ~IsDict(research_json) THEN Raised("AttributeError")
  ELSE Value(JBool(
         IF \E key \in {KeyCitations, KeySources, KeyEvidence, KeyEvidenceTable} :
              Truthy(DictGet(research_json, key, None))
         THEN LitTrue ELSE LitFalse))

\* any(name in t for t in tools_used)
AnyTool(tools_used, name) == \E i \in 1..Len(tools_used) : Contains(tools_used[i], name)

\* a faulty variant of warnings_from: the wrong-tool warning comes first
warnings_tool_first(has_evidence, tools_used, pref) ==
  (IF pref = "tavily"
   THEN (IF AnyTool(tools_used, TextInternetSearch) THEN <<>> ELSE <<WarnNoTavily>>)
   ELSE (IF AnyTool(tools_used, TextFirecrawl) THEN <<>> ELSE <<WarnNoFirecrawl>>))
  \o (IF has_evidence.s = LitTrue THEN <<>> ELSE <<WarnNoEvidence>>)

\* the warnings list
warnings_from(has_evidence, tools_used, pref) ==
  (IF has_evidence.s = LitTrue THEN <<>> ELSE <<WarnNoEvidence>>)
  \o (IF pref = "tavily"
      THEN (IF AnyTool(tools_used, TextInternetSearch) THEN <<>> ELSE <<WarnNoTavily>>)
      ELSE (IF AnyTool(tools_used, TextFirecrawl) THEN <<>> ELSE <<WarnNoFirecrawl>>))
warnings_of(research_json, pref) ==
  warnings_from(has_evidence_of(research_json).v, tools_used_of(research_json), pref)

CriticNotesChars == 400
critic_fallback(critic_out_raw) ==
  JObj(<<KeyVerdict, KeyFixes, KeyNotes>>,
       <<JStr(TextREVISE),
         JList(<<JStr(TextCriticUnparsable)>>),
         JStr(Take(critic_out_raw, CriticNotesChars))>>)

\* if not critic_json: critic_json = the fallback
critic_or_fallback(parsed, critic_out_raw) ==
  IF Truthy(parsed) THEN parsed ELSE critic_fallback(critic_out_raw)
critic_record(critic_out_raw) ==
  critic_or_fallback(parse_critic(critic_out_raw), critic_out_raw)

TopSourcesCount == 3
\* x[:3]: a list or a str can be sliced, anything else raises TypeError
SliceTop(x) ==
  IF IsList(x) THEN Value(JList(Take(x.v, TopSourcesCount)))
  ELSE IF IsStr(x) THEN Value(JStr(Take(x.s, TopSourcesCount)))
  ELSE Raised("TypeError")

\* a[:3] or b[:3]: b is sliced only when a[:3] is falsy
SliceOr(a, b) ==
  IF a.exc # "" THEN a
  ELSE IF Truthy(a.v) THEN a
  ELSE b
\* research_json.get("sources", [])[:3] or research_json.get("citations", [])[:3]
top_sources_of(research_json) ==
  SliceOr(SliceTop(DictGet(research_json, KeySources, JList(<<>>))),
          SliceTop(DictGet(research_json, KeyCitations, JList(<<>>))))

\* research_json.get("short_answer") or research_json.get("answer")
short_answer_of(research_json) ==
  PyOr(DictGet(research_json, KeyShortAnswer, None),
       DictGet(research_json, KeyAnswer, None))

(***************************************************************************)
(* Inputs: the caller's arguments and what the agent streams               *)
(***************************************************************************)
\* What is ARC-AGI?
QuestionArcAgi ==
  <<"W","h","a","t"," ","i","s"," ","A","R","C","-","A","G","I","?">>
\* firecrawl
PrefFirecrawl ==
  <<"f","i","r","e","c","r","a","w","l">>
\* Tavily
PrefTavily ==
  <<"T","a","v","i","l","y">>
\* serpapi
PrefOther ==
  <<"s","e","r","p","a","p","i">>
\* [{"step_id":"1","description":"Research ARC-AGI
\* definition","assigned_to":"research-agent","expected_artifact":"summary"}]
PlanSpecExample ==
  <<"[","{","\"","s","t","e","p","_","i","d","\"",":","\"","1","\"",",","\"",
    "d","e","s","c","r","i","p","t","i","o","n","\"",":","\"","R","e","s","e",
    "a","r","c","h"," ","A","R","C","-","A","G","I"," ","d","e","f","i","n",
    "i","t","i","o","n","\"",",","\"","a","s","s","i","g","n","e","d","_","t",
    "o","\"",":","\"","r","e","s","e","a","r","c","h","-","a","g","e","n","t",
    "\"",",","\"","e","x","p","e","c","t","e","d","_","a","r","t","i","f","a",
    "c","t","\"",":","\"","s","u","m","m","a","r","y","\"","}","]">>
\* Here is the plan:
PlanNoise ==
  <<"H","e","r","e"," ","i","s"," ","t","h","e"," ","p","l","a","n",":"," ">>
\* [{"description":"Find sources"}]
PlanShort ==
  <<"[","{","\"","d","e","s","c","r","i","p","t","i","o","n","\"",":","\"",
    "F","i","n","d"," ","s","o","u","r","c","e","s","\"","}","]">>
\* ["Research ARC-AGI"]
PlanStrings ==
  <<"[","\"","R","e","s","e","a","r","c","h"," ","A","R","C","-","A","G","I",
    "\"","]">>
\* First look up the benchmark
PlanProse ==
  <<"F","i","r","s","t"," ","l","o","o","k"," ","u","p"," ","t","h","e"," ",
    "b","e","n","c","h","m","a","r","k">>
\* {"steps":[{"description":"Find sources"}]}
PlanMapping ==
  <<"{","\"","s","t","e","p","s","\"",":","[","{","\"","d","e","s","c","r",
    "i","p","t","i","o","n","\"",":","\"","F","i","n","d"," ","s","o","u","r",
    "c","e","s","\"","}","]","}">>
\* [{"step_id":"1"}]
PlanNoDescription ==
  <<"[","{","\"","s","t","e","p","_","i","d","\"",":","\"","1","\"","}","]">>
\* {"notes":["x"],"steps":[{"description":"Find sources"}]}
PlanSkipped ==
  <<"{","\"","n","o","t","e","s","\"",":","[","\"","x","\"","]",",","\"","s",
    "t","e","p","s","\"",":","[","{","\"","d","e","s","c","r","i","p","t","i",
    "o","n","\"",":","\"","F","i","n","d"," ","s","o","u","r","c","e","s",
    "\"","}","]","}">>
\* {"title":"plan"}
PlanTitle ==
  <<"{","\"","t","i","t","l","e","\"",":","\"","p","l","a","n","\"","}">>
\* null
PlanNull ==
  <<"n","u","l","l">>
\* {"answer":"ARC-AGI is a
\* benchmark","citations":[{"sid":"S1"}],"method":{"tools_used":["firecrawl_scrape"]}}
ResearchGood ==
  <<"{","\"","a","n","s","w","e","r","\"",":","\"","A","R","C","-","A","G",
    "I"," ","i","s"," ","a"," ","b","e","n","c","h","m","a","r","k","\"",",",
    "\"","c","i","t","a","t","i","o","n","s","\"",":","[","{","\"","s","i",
    "d","\"",":","\"","S","1","\"","}","]",",","\"","m","e","t","h","o","d",
    "\"",":","{","\"","t","o","o","l","s","_","u","s","e","d","\"",":","[",
    "\"","f","i","r","e","c","r","a","w","l","_","s","c","r","a","p","e","\"",
    "]","}","}">>
\* {"answer":"A reasoning
\* test","method":{"tools_used":["internet_search"]}}
ResearchTavily ==
  <<"{","\"","a","n","s","w","e","r","\"",":","\"","A"," ","r","e","a","s",
    "o","n","i","n","g"," ","t","e","s","t","\"",",","\"","m","e","t","h","o",
    "d","\"",":","{","\"","t","o","o","l","s","_","u","s","e","d","\"",":",
    "[","\"","i","n","t","e","r","n","e","t","_","s","e","a","r","c","h","\"",
    "]","}","}">>
\* No tools were available
ResearchProse ==
  <<"N","o"," ","t","o","o","l","s"," ","w","e","r","e"," ","a","v","a","i",
    "l","a","b","l","e">>
\*  so nothing was found
ResearchMore ==
  <<" ","s","o"," ","n","o","t","h","i","n","g"," ","w","a","s"," ","f","o",
    "u","n","d">>
\* [1, 2]
ResearchList ==
  <<"[","1",","," ","2","]">>
\* {"answer":"abc","sources":null}
ResearchNullSources ==
  <<"{","\"","a","n","s","w","e","r","\"",":","\"","a","b","c","\"",",","\"",
    "s","o","u","r","c","e","s","\"",":","n","u","l","l","}">>
\* { }
ResearchEmptyObject ==
  <<"{"," ","}">>
\* "tools_unavailable"
ResearchString ==
  <<"\"","t","o","o","l","s","_","u","n","a","v","a","i","l","a","b","l","e",
    "\"">>
\* {"answer":"x","sources":["a","b","c","d"],"citations":["z"]}
ResearchSourcesNoMethod ==
  <<"{","\"","a","n","s","w","e","r","\"",":","\"","x","\"",",","\"","s","o",
    "u","r","c","e","s","\"",":","[","\"","a","\"",",","\"","b","\"",",","\"",
    "c","\"",",","\"","d","\"","]",",","\"","c","i","t","a","t","i","o","n",
    "s","\"",":","[","\"","z","\"","]","}">>
\* {"citations":[1,2,3,4],"sources":[],"method":{"tools_used":"firecrawl"}}
ResearchToolsText ==
  <<"{","\"","c","i","t","a","t","i","o","n","s","\"",":","[","1",",","2",",",
    "3",",","4","]",",","\"","s","o","u","r","c","e","s","\"",":","[","]",",",
    "\"","m","e","t","h","o","d","\"",":","{","\"","t","o","o","l","s","_",
    "u","s","e","d","\"",":","\"","f","i","r","e","c","r","a","w","l","\"",
    "}","}">>
\* {"evidence":"table","method":{"tools_used":["Firecrawl_Scrape","INTERNET_S
\* EARCH"]}}
ResearchMixedCase ==
  <<"{","\"","e","v","i","d","e","n","c","e","\"",":","\"","t","a","b","l",
    "e","\"",",","\"","m","e","t","h","o","d","\"",":","{","\"","t","o","o",
    "l","s","_","u","s","e","d","\"",":","[","\"","F","i","r","e","c","r","a",
    "w","l","_","S","c","r","a","p","e","\"",",","\"","I","N","T","E","R","N",
    "E","T","_","S","E","A","R","C","H","\"","]","}","}">>
\* ARC-AGI is a benchmark [S1].
CandidateText ==
  <<"A","R","C","-","A","G","I"," ","i","s"," ","a"," ","b","e","n","c","h",
    "m","a","r","k"," ","[","S","1","]",".">>
\* ARC-AGI is a reasoning benchmark [S1].
FinalText ==
  <<"A","R","C","-","A","G","I"," ","i","s"," ","a"," ","r","e","a","s","o",
    "n","i","n","g"," ","b","e","n","c","h","m","a","r","k"," ","[","S","1",
    "]",".">>
\* {"verdict":"ACCEPT","fixes":[],"notes":"fine","quality_score":90}
CriticAccept ==
  <<"{","\"","v","e","r","d","i","c","t","\"",":","\"","A","C","C","E","P",
    "T","\"",",","\"","f","i","x","e","s","\"",":","[","]",",","\"","n","o",
    "t","e","s","\"",":","\"","f","i","n","e","\"",",","\"","q","u","a","l",
    "i","t","y","_","s","c","o","r","e","\"",":","9","0","}">>
\* not json
CriticNotJson ==
  <<"n","o","t"," ","j","s","o","n">>
\* 123
CriticNumber ==
  <<"1","2","3">>
\* ["REVISE"]
CriticList ==
  <<"[","\"","R","E","V","I","S","E","\"","]">>
\* The answer looks plausible but very very very very very very very very
\* very very very very very very very very very very very very very very
\* very very very very very very very very very very very very very very
\* very very very very very very very very very very very very very very
\* very very very very very very very very very very very very very very
\* very very very very very very very very very very very very very very
\* very very long.
CriticLong ==
  <<"T","h","e"," ","a","n","s","w","e","r"," ","l","o","o","k","s"," ","p",
    "l","a","u","s","i","b","l","e"," ","b","u","t"," ","v","e","r","y"," ",
    "v","e","r","y"," ","v","e","r","y"," ","v","e","r","y"," ","v","e","r",
    "y"," ","v","e","r","y"," ","v","e","r","y"," ","v","e","r","y"," ","v",
    "e","r","y"," ","v","e","r","y"," ","v","e","r","y"," ","v","e","r","y",
    " ","v","e","r","y"," ","v","e","r","y"," ","v","e","r","y"," ","v","e",
    "r","y"," ","v","e","r","y"," ","v","e","r","y"," ","v","e","r","y"," ",
    "v","e","r","y"," ","v","e","r","y"," ","v","e","r","y"," ","v","e","r",
    "y"," ","v","e","r","y"," ","v","e","r","y"," ","v","e","r","y"," ","v",
    "e","r","y"," ","v","e","r","y"," ","v","e","r","y"," ","v","e","r","y",
    " ","v","e","r","y"," ","v","e","r","y"," ","v","e","r","y"," ","v","e",
    "r","y"," ","v","e","r","y"," ","v","e","r","y"," ","v","e","r","y"," ",
    "v","e","r","y"," ","v","e","r","y"," ","v","e","r","y"," ","v","e","r",
    "y"," ","v","e","r","y"," ","v","e","r","y"," ","v","e","r","y"," ","v",
    "e","r","y"," ","v","e","r","y"," ","v","e","r","y"," ","v","e","r","y",
    " ","v","e","r","y"," ","v","e","r","y"," ","v","e","r","y"," ","v","e",
    "r","y"," ","v","e","r","y"," ","v","e","r","y"," ","v","e","r","y"," ",
    "v","e","r","y"," ","v","e","r","y"," ","v","e","r","y"," ","v","e","r",
    "y"," ","v","e","r","y"," ","v","e","r","y"," ","v","e","r","y"," ","v",
    "e","r","y"," ","v","e","r","y"," ","v","e","r","y"," ","v","e","r","y",
    " ","v","e","r","y"," ","v","e","r","y"," ","v","e","r","y"," ","v","e",
    "r","y"," ","v","e","r","y"," ","v","e","r","y"," ","v","e","r","y"," ",
    "v","e","r","y"," ","v","e","r","y"," ","v","e","r","y"," ","v","e","r",
    "y"," ","v","e","r","y"," ","v","e","r","y"," ","v","e","r","y"," ","l",
    "o","n","g",".">>
\* Hello world
FragHello ==
  <<"H","e","l","l","o"," ","w","o","r","l","d">>
\* hello   WORLD
FragHelloAgain ==
  <<"h","e","l","l","o"," "," "," ","W","O","R","L","D">>
\* <|tool_call_begin|>search
FragToolCall ==
  <<"<","|","t","o","o","l","_","c","a","l","l","_","b","e","g","i","n","|",
    ">","s","e","a","r","c","h">>
\* call functions.write_todos now
FragTodos ==
  <<"c","a","l","l"," ","f","u","n","c","t","i","o","n","s",".","w","r","i",
    "t","e","_","t","o","d","o","s"," ","n","o","w">>
\* ok
FragTiny ==
  <<"o","k">>
\* I'll research this topic
FragFiller ==
  <<"I","'","l","l"," ","r","e","s","e","a","r","c","h"," ","t","h","i","s",
    " ","t","o","p","i","c">>
\* {"objective": "What is ARC-AGI?"}
FragObjective ==
  <<"{","\"","o","b","j","e","c","t","i","v","e","\"",":"," ","\"","W","h",
    "a","t"," ","i","s"," ","A","R","C","-","A","G","I","?","\"","}">>
\* Let me think
FragThinking ==
  <<"L","e","t"," ","m","e"," ","t","h","i","n","k">>
\* OBJECTIVE: find it
FragObjectiveUpper ==
  <<"O","B","J","E","C","T","I","V","E",":"," ","f","i","n","d"," ","i","t">>
\* Got it.
FragGotIt ==
  <<"G","o","t"," ","i","t","."," ">>
\* the planner's instruction preamble, echoed after a few words
FragEchoPreamble == FragGotIt \o role_invocation("planner-agent")
\* the planner's instruction preamble, echoed after more than 300 characters
FragLateEcho == CriticLong \o <<"\n">> \o role_invocation("planner-agent")
\* the planner's registered prompt, echoed from its first character
FragEchoPrompt == PlannerPrompt

\* what agent.astream yields: a chunk is [is_dict, messages]; a chunk that
\* is no dict carries its own content / reasoning_content as one message
Msg(content, reasoning_content) ==
  [content |-> content, reasoning_content |-> reasoning_content]
Content(t) == [is_dict |-> FALSE, messages |-> <<Msg(t, <<>>)>>]
WithReasoning(t, rc) == [is_dict |-> FALSE, messages |-> <<Msg(t, rc)>>]
Values(messages) == [is_dict |-> TRUE, messages |-> messages]

\* the streams the agent may answer each stage's invocation with
PlannerStreams ==
  { <<>>,
    <<Content(PlanSpecExample)>>,
    <<Values(<<Msg(PlanNoise, <<>>)>>),
      Values(<<Msg(PlanNoise, <<>>), Msg(PlanShort, <<>>)>>)>>,
    <<Content(PlanStrings)>>,
    <<Content(PlanProse)>>,
    <<Content(PlanMapping)>>,
    <<Content(PlanNoDescription)>>,
    <<Content(PlanNull)>>,
    <<Content(PlanSkipped)>>,
    <<Content(PlanTitle)>> }
ResearchStreams ==
  { <<>>,
    <<Content(ResearchGood)>>,
    <<Content(ResearchTavily)>>,
    <<Content(ResearchProse)>>,
    <<Content(ResearchProse), Content(ResearchMore)>>,
    <<Content(ResearchList)>>,
    <<Content(ResearchNullSources)>>,
    <<Content(ResearchEmptyObject)>>,
    <<Content(ResearchString)>>,
    <<Content(ResearchSourcesNoMethod)>>,
    <<Content(ResearchToolsText)>>,
    <<Content(ResearchMixedCase)>> }
CandidateStreams ==
  { <<>>, <<WithReasoning(CandidateText, FragThinking)>> }
CriticStreams ==
  { <<>>,
    <<Content(CriticAccept)>>,
    <<Content(CriticNotJson)>>,
    <<Content(CriticNumber)>>,
    <<Content(CriticList)>>,
    <<Content(CriticLong)>> }
FinalStreams ==
  { <<>>, <<Content(FinalText)>> }

\* the chunks the agent may yield, one at a time, in a direct call of
\* stream_subagent
DirectChunks ==
  { Content(FragHello),
    Content(FragHelloAgain),
    Content(FragToolCall),
    Content(FragTodos),
    Content(FragTiny),
    Content(FragFiller),
    Content(FragObjective),
    WithReasoning(FragHello, FragThinking),
    Values(<<>>),
    Values(<<Msg(FragThinking, <<>>), Msg(FragHello, <<>>)>>),
    Content(FragObjectiveUpper) }

\* the streams of an agent that echoes what it was sent: the instruction
\* preamble or the registered prompt of the planner, among other texts
EchoStreams ==
  { <<>>,
    <<Content(FragHello), Content(FragEchoPreamble), Content(FragThinking)>>,
    <<Content(FragEchoPrompt), Content(FragHello)>>,
    <<Content(FragLateEcho)>>,
    <<WithReasoning(FragEchoPreamble, FragEchoPrompt), Content(FragHello)>>,
    <<Values(<<Msg(FragHello, FragEchoPrompt), Msg(FragThinking, <<>>)>>)>> }

\* the longest stream of a direct call
MaxChunks == 2

\* the arguments of run_conversation / stream_subagent other than the agent:
\* on_text is "none" (no observer), "ok", or "faulty" (an observer that may
\* raise); has_stop tells whether should_stop is supplied
Config(quiet, on_text, has_stop, research_preference) ==
  [ quiet |-> quiet, on_text |-> on_text, has_stop |-> has_stop,
    research_preference |-> research_preference,
    user_question |-> QuestionArcAgi ]
Configs ==
  { Config(FALSE, "none", FALSE, PrefFirecrawl),
    Config(TRUE, "none", TRUE, PrefTavily),
    Config(TRUE, "ok", FALSE, PrefTavily),
    Config(FALSE, "ok", TRUE, PrefFirecrawl),
    Config(TRUE, "none", FALSE, PrefOther) }
DirectConfigs ==
  { Config(FALSE, "none", FALSE, PrefFirecrawl),
    Config(TRUE, "none", TRUE, PrefFirecrawl),
    Config(FALSE, "ok", TRUE, PrefFirecrawl),
    Config(TRUE, "ok", FALSE, PrefFirecrawl),
    Config(FALSE, "faulty", FALSE, PrefFirecrawl),
    Config(TRUE, "faulty", TRUE, PrefFirecrawl) }

\* the arguments of a direct call of stream_subagent
DirectCalls ==
  { [role_name |-> "planner-agent", tag |-> ""],
    [role_name |-> "main-agent", tag |-> "final"],
    [role_name |-> "helper-agent", tag |-> ""] }

(***************************************************************************)
(* State                                                                   *)
(***************************************************************************)
VARIABLES
  run,     \* per conversation: the locals of run_conversation and of the
           \* stream_subagent call it awaits, and what the call returned
  world    \* per conversation: the agent's stream, should_stop(), the
           \* observer's calls, the console, and the history the claims read

vars == <<run, world>>

Conversations == DOMAIN run

NoResult == [returned |-> FALSE]

\* the locals before the first statement of the call
NewRun(entry, cfg, role_name, tag) ==
  [ entry |-> entry,          \* "run_conversation" or "stream_subagent"
    pc |-> "start",
    cfg |-> cfg,
    role_name |-> role_name,
    tag |-> tag,
    texts |-> <<>>,
    collected |-> <<>>,
    seen_norms |-> {},
    planner_out |-> <<>>,
    plan |-> None,
    research_focus |-> None,
    research_out_raw |-> <<>>,
    research_json |-> None,
    warnings |-> <<>>,
    candidate_out |-> <<>>,
    critic_out_raw |-> <<>>,
    critic_json |-> None,
    final_out |-> <<>>,
    exception |-> "",
    stream_out |-> <<>>,
    result |-> NoResult ]

NoMark == [set |-> FALSE, pc |-> "", processed |-> 0]

NewWorld ==
  [ script |-> <<>>,          \* the agent's stream for each invocation, when fixed
                              \* for the whole conversation
    scripted |-> FALSE,       \* the stream was fixed when astream was called
    pending |-> <<>>,         \* the chunks a scripted stream still yields
    yielded |-> 0,            \* chunks yielded in this invocation
    chunks |-> <<>>,          \* those of them whose texts the loop extracted
    stop |-> FALSE,           \* what should_stop() returns now
    observed |-> <<>>,        \* the on_text calls, in order, and whether each raised
    observer_raised |-> FALSE,
    printed |-> <<>>,         \* the print calls, in order
    invoked |-> <<>>,         \* the agent.astream calls, in order
    arrivals |-> <<>>,        \* the text items the loop body took, this invocation
    processed |-> 0,          \* their number
    stop_mark |-> NoMark,     \* where should_stop() turned true
    polled_after_stop |-> FALSE,
    chunk_after_stop |-> "" ] \* the stage in which a chunk first arrived after that

StreamPcs == {"planner", "research", "candidate", "critic", "final", "stream"}

Console(cfg) == ~cfg.quiet /\ cfg.on_text = "none"

Line(what, role_name, text) == [what |-> what, role_name |-> role_name, text |-> text]

(***************************************************************************)
(* stream_subagent                                                         *)
(***************************************************************************)
\* a faulty variant of EnterStream: the seen set of the stage before is kept
EnterStreamKeepsSeen(r, pc, role_name, tag) ==
  [r EXCEPT !.pc = pc, !.role_name = role_name, !.tag = tag,
            !.texts = <<>>, !.collected = <<>>]

\* lines 45-63: up to the first wait for a chunk
EnterStream(r, pc, role_name, tag) ==
  [r EXCEPT !.pc = pc, !.role_name = role_name, !.tag = tag,
            !.texts = <<>>, !.collected = <<>>, !.seen_norms = {}]

\* the agent is called: it fixes its stream (scripted) or not
AgentCalled(w, cfg, role_name, tag, payload, scripted, stream) ==
  [w EXCEPT !.scripted = scripted, !.pending = stream, !.yielded = 0,
            !.invoked = Append(@, [role_name |-> role_name, tag |-> tag,
                                   payload |-> payload]),
            !.printed = IF Console(cfg)
                        THEN Append(@, Line("call", role_name, <<>>)) ELSE @,
            !.chunks = <<>>, !.arrivals = <<>>, !.processed = 0]

\* raise exc out of the awaited call and out of run_conversation
RaiseOut(r, exc) == [r EXCEPT !.pc = "raised", !.exception = exc, !.texts = <<>>]

\* lines 64-65 and 89-90: the poll of should_stop
StopPolledTrue(r, w) == r.cfg.has_stop /\ w.stop

\* a faulty variant of OnChunk: should_stop is not polled when a chunk arrives
OnChunkUnpolled(r, chunk, stop_now) == [r EXCEPT !.texts = ChunkTexts(chunk.messages)]

\* line 64-86: a chunk arrived
OnChunk(r, chunk, stop_now) ==
  IF stop_now THEN RaiseOut(r, "InterruptedError")
  ELSE [r EXCEPT !.texts = ChunkTexts(chunk.messages)]

\* a faulty variant of Collect: the newest text is put in front
CollectPrepended(r, t, observer_raised) ==
  [r EXCEPT !.collected = <<t>> \o @,
            !.seen_norms = @ \cup {normalize_short(t, DefaultMaxChars)},
            !.texts = Tail(@)]

\* a faulty variant of Collect: the observer's exception is not caught
CollectObserverFatal(r, t, observer_raised) ==
  IF observer_raised THEN RaiseOut(r, "RuntimeError")
  ELSE [r EXCEPT !.collected = Append(@, t),
                 !.seen_norms = @ \cup {normalize_short(t, DefaultMaxChars)},
                 !.texts = Tail(@)]

\* lines 107-115, for an accepted text: the observer's exception is caught
Collect(r, t, observer_raised) ==
  [r EXCEPT !.collected = Append(@, t),
            !.seen_norms = @ \cup {normalize_short(t, DefaultMaxChars)},
            !.texts = Tail(@)]

\* a faulty variant of OnText: a true poll ends the loop over the texts of the
\* chunk instead of raising
OnTextStopEnds(r, stop_now, observer_raised) ==
  IF stop_now THEN [r EXCEPT !.texts = <<>>]
  ELSE IF Discarded(Head(r.texts).t, r.role_name, r.seen_norms)
       THEN [r EXCEPT !.texts = Tail(@)]
  ELSE Collect(r, Head(r.texts).t, observer_raised)

\* a faulty variant of OnText: should_stop is not polled before a text
OnTextUnpolled(r, stop_now, observer_raised) ==
  IF Discarded(Head(r.texts).t, r.role_name, r.seen_norms)
  THEN [r EXCEPT !.texts = Tail(@)]
  ELSE Collect(r, Head(r.texts).t, observer_raised)

\* lines 88-115: one pass of the loop body over the next text
OnText(r, stop_now, observer_raised) ==
  IF stop_now THEN RaiseOut(r, "InterruptedError")
  ELSE IF Discarded(Head(r.texts).t, r.role_name, r.seen_norms)
       THEN [r EXCEPT !.texts = Tail(@)]
  ELSE Collect(r, Head(r.texts).t, observer_raised)

\* a faulty variant of TagOrRole: the tag is ignored
RoleAsTag(r) == r.role_name

\* the tag the observer gets: tag or role_name
TagOrRole(r) == IF r.tag # "" THEN r.tag ELSE r.role_name

\* a faulty variant of Notify: with an observer the text is printed as well
\* unless quiet
NotifyAlsoPrints(w, r, item, observer_raised) ==
  IF r.cfg.on_text # "none"
  THEN [w EXCEPT !.observed = Append(@, [tag |-> TagOrRole(r), text |-> item.t,
                                         kind |-> item.kind,
                                         raised |-> observer_raised]),
                 !.observer_raised = @ \/ observer_raised,
                 !.printed = IF r.cfg.quiet THEN @
                             ELSE Append(@, Line("text", r.role_name, item.t))]
  ELSE IF ~r.cfg.quiet
       THEN [w EXCEPT !.printed = Append(@, Line("text", r.role_name, item.t))]
  ELSE w

\* lines 107-113: who is told about an accepted text
Notify(w, r, item, observer_raised) ==
  IF r.cfg.on_text # "none"
  THEN [w EXCEPT !.observed = Append(@, [tag |-> TagOrRole(r), text |-> item.t,
                                         kind |-> item.kind,
                                         raised |-> observer_raised]),
                 !.observer_raised = @ \/ observer_raised]
  ELSE IF ~r.cfg.quiet
       THEN [w EXCEPT !.printed = Append(@, Line("text", r.role_name, item.t))]
  ELSE w

\* lines 116-118: the stream is exhausted
StreamReturn(r) == Join(r.collected)
EndPrinted(w, r) ==
  IF Console(r.cfg)
  THEN [w EXCEPT !.printed = Append(@, Line("end", r.role_name, <<>>))] ELSE w

\* the chunks the agent can yield next
NextChunks(w) ==
  IF w.scripted THEN (IF w.pending = <<>> THEN {} ELSE {Head(w.pending)})
  ELSE IF w.yielded < MaxChunks THEN DirectChunks ELSE {}

\* the agent's stream can end here
CanEnd(w) == w.scripted => w.pending = <<>>

ChunkArrives(c) ==
  /\ run[c].pc \in StreamPcs
  /\ run[c].texts = <<>>
  /\ \E chunk \in NextChunks(world[c]) :
       /\ run' = [run EXCEPT ![c] = OnChunk(@, chunk, StopPolledTrue(run[c], world[c]))]
       /\ world' = [world EXCEPT
            ![c].pending = IF world[c].scripted THEN Tail(@) ELSE @,
            ![c].yielded = @ + 1,
            ![c].chunks = IF StopPolledTrue(run[c], world[c]) THEN @ ELSE Append(@, chunk),
            ![c].polled_after_stop = @ \/ StopPolledTrue(run[c], world[c]),
            ![c].chunk_after_stop =
               IF @ = "" /\ StopPolledTrue(run[c], world[c]) THEN run[c].pc ELSE @]

\* the history of one pass: the poll and, without a stop, the text it took
Polled(w, r, stop_now) ==
  IF stop_now
  THEN [w EXCEPT !.polled_after_stop = TRUE,
                 !.chunk_after_stop = IF @ = "" THEN r.pc ELSE @]
  ELSE [w EXCEPT !.arrivals = Append(@, Head(r.texts)), !.processed = @ + 1]

\* a faulty variant of TextStep: the set of seen forms is shared by the
\* conversations under way
TextStepSharedSeen(c, r, w, stop_now, accepted, observer_raised) ==
  /\ observer_raised => accepted
  /\ run' = [d \in DOMAIN run |->
               IF d = c THEN OnText(r, stop_now, observer_raised)
               ELSE IF accepted
                    THEN [run[d] EXCEPT !.seen_norms =
                            @ \cup {normalize_short(Head(r.texts).t, DefaultMaxChars)}]
               ELSE run[d]]
  /\ world' = [world EXCEPT ![c] =
                 IF accepted
                 THEN Notify(Polled(w, r, stop_now), r, Head(r.texts), observer_raised)
                 ELSE Polled(w, r, stop_now)]

\* one pass of the loop body: accepted tells that the text passes the filter,
\* observer_raised that on_text raises when it is called with it
TextStep(c, r, w, stop_now, accepted, observer_raised) ==
  /\ observer_raised => accepted
  /\ run' = [run EXCEPT ![c] = OnText(r, stop_now, observer_raised)]
  /\ world' = [world EXCEPT ![c] =
                 IF accepted
                 THEN Notify(Polled(w, r, stop_now), r, Head(r.texts), observer_raised)
                 ELSE Polled(w, r, stop_now)]

TextPolled(c, r, w, stop_now, observer_raised) ==
  TextStep(c, r, w, stop_now,
           ~stop_now /\ ~Discarded(Head(r.texts).t, r.role_name, r.seen_norms),
           observer_raised)

ProcessText(c) ==
  /\ run[c].pc \in StreamPcs
  /\ run[c].texts # <<>>
  /\ \E observer_raised \in (IF run[c].cfg.on_text = "faulty" THEN BOOLEAN ELSE {FALSE}) :
       TextPolled(c, run[c], world[c], StopPolledTrue(run[c], world[c]), observer_raised)

\* should_stop() starts to return true
SetStop(c) ==
  /\ run[c].cfg.has_stop
  /\ run[c].pc \in StreamPcs
  /\ ~world[c].stop
  /\ world' = [world EXCEPT ![c].stop = TRUE,
                            ![c].stop_mark = [set |-> TRUE, pc |-> run[c].pc,
                                              processed |-> world[c].processed]]
  /\ UNCHANGED run

\* a direct call of stream_subagent
StartStream(c) ==
  /\ run[c].entry = "stream_subagent"
  /\ run[c].pc = "start"
  /\ run' = [run EXCEPT ![c] = EnterStream(@, "stream", @.role_name, @.tag)]
  /\ world' = [world EXCEPT ![c] =
                 AgentCalled(@, run[c].cfg, run[c].role_name, run[c].tag,
                             [task |-> <<>>], FALSE, <<>>)]

\* a direct call of stream_subagent on an agent whose stream is fixed
StartEcho(c) ==
  /\ run[c].entry = "stream_subagent"
  /\ run[c].pc = "start"
  /\ \E stream \in EchoStreams :
       /\ run' = [run EXCEPT ![c] = EnterStream(@, "stream", @.role_name, @.tag)]
       /\ world' = [world EXCEPT ![c] =
                      AgentCalled(@, run[c].cfg, run[c].role_name, run[c].tag,
                                  [task |-> <<>>], TRUE, stream)]

EndStream(c) ==
  /\ run[c].pc = "stream"
  /\ run[c].texts = <<>>
  /\ CanEnd(world[c])
  /\ run' = [run EXCEPT ![c].pc = "done", ![c].stream_out = StreamReturn(run[c])]
  /\ world' = [world EXCEPT ![c] = EndPrinted(@, run[c])]

(***************************************************************************)
(* run_conversation                                                        *)
(***************************************************************************)
\* lines 165-183: research_focus, or the exception of line 169
PlannerFocus(r, focus) ==
  IF focus.exc # "" THEN RaiseOut(r, focus.exc)
  ELSE [r EXCEPT !.research_focus = focus.v]
PlannerParsed(r, planner_out, plan) ==
  PlannerFocus([r EXCEPT !.planner_out = planner_out, !.plan = plan],
               research_focus_of(plan, planner_out, r.cfg.user_question))
\* lines 153-183, after the planner's stream has ended
AfterPlanner(r, planner_out) == PlannerParsed(r, planner_out, parse_plan(planner_out))

\* lines 216-235: the warnings, or the exception of line 226
ResearchWarned(r, has_evidence, tools_used) ==
  IF has_evidence.exc # "" THEN RaiseOut(r, has_evidence.exc)
  ELSE [r EXCEPT !.warnings =
          warnings_from(has_evidence.v, tools_used, pref_of(r.cfg.research_preference))]
ResearchParsed(r, research_out_raw, research_json) ==
  The({ResearchWarned([r EXCEPT !.research_out_raw = research_out_raw,
                               !.research_json = research_json],
                      has_evidence, tools_used) :
         has_evidence \in {has_evidence_of(research_json)},
         tools_used \in {tools_used_of(research_json)}})
\* lines 197-235, after the research stream has ended
AfterResearch(r, research_out_raw) ==
  The({ResearchParsed(r, research_out_raw, research_json) :
         research_json \in {research_record(research_out_raw)}})

\* line 247, after the candidate stream has ended
AfterCandidate(r, candidate_out) == [r EXCEPT !.candidate_out = candidate_out]

\* lines 282-295: the final payload, or the exception of line 291
CriticSummarized(r, top_sources) ==
  IF top_sources.exc # "" THEN RaiseOut(r, top_sources.exc) ELSE r
\* a faulty variant of AfterCritic: a critic output that does not parse adds
\* a warning
AfterCriticWarns(r, critic_out_raw) ==
  CriticSummarized([r EXCEPT !.critic_out_raw = critic_out_raw,
                             !.critic_json = critic_record(critic_out_raw),
                             !.warnings = IF parse_critic(critic_out_raw) = None
                                          THEN Append(@, TextCriticUnparsable) ELSE @],
                   top_sources_of(r.research_json))

\* lines 263-295, after the critic's stream has ended
AfterCritic(r, critic_out_raw) ==
  CriticSummarized([r EXCEPT !.critic_out_raw = critic_out_raw,
                             !.critic_json = critic_record(critic_out_raw)],
                   top_sources_of(r.research_json))

\* lines 305-316: the returned dict
result_of(r) ==
  [ returned |-> TRUE,
    user_question |-> r.cfg.user_question,
    planner |-> r.planner_out,
    plan_parsed |-> r.plan,
    research_raw |-> r.research_out_raw,
    research_json |-> r.research_json,
    candidate |-> r.candidate_out,
    critic_raw |-> r.critic_out_raw,
    critic_json |-> r.critic_json,
    final |-> r.final_out,
    warnings |-> r.warnings ]

\* lines 305-316
Returned(r) == [r EXCEPT !.pc = "done", !.result = result_of(r)]
\* lines 296-316, after the final stream has ended
AfterFinal(r, final_out) == Returned([r EXCEPT !.final_out = final_out])

\* the payloads, by their variable parts
planner_payload(r) == [objective |-> r.cfg.user_question]
research_instruction(r) ==
  [research_focus |-> PyStr(r.research_focus),
   pref |-> pref_of(r.cfg.research_preference)]
assemble_payload(r) == [research_json |-> r.research_json]
critic_payload(r) ==
  [candidate_answer |-> r.candidate_out, research_summary |-> r.research_json]
final_payload(r) ==
  [candidate |-> r.candidate_out,
   critic_json |-> r.critic_json,
   short_answer |-> short_answer_of(r.research_json),
   top_sources |-> top_sources_of(r.research_json).v]

\* await stream_subagent(agent, role_name, payload, ..., tag=tag): the call
\* runs to its first wait; the agent answers with one of streams, or with
\* the stream fixed for this invocation
Await(c, r, w, pc, role_name, tag, payload, streams) ==
  \E stream \in (IF w.script = <<>> THEN streams
                 ELSE {w.script[Len(w.invoked) + 1]}) :
    /\ run' = [run EXCEPT ![c] = EnterStream(r, pc, role_name, tag)]
    /\ world' = [world EXCEPT ![c] =
                   AgentCalled(w, r.cfg, role_name, tag, payload, TRUE, stream)]

\* a faulty variant of StageEnds: the call returns between two chunks
StageEndsEarly(c, pc) ==
  /\ run[c].pc = pc
  /\ run[c].texts = <<>>

\* the awaited stream_subagent call of stage pc can return
StageEnds(c, pc) ==
  /\ run[c].pc = pc
  /\ run[c].texts = <<>>
  /\ CanEnd(world[c])

\* the stage's code raised: run_conversation ends with r.exception
Unwind(c, r, w) ==
  /\ run' = [run EXCEPT ![c] = r]
  /\ world' = [world EXCEPT ![c] = w]

\* lines 136-151
Start(c) ==
  /\ run[c].entry = "run_conversation"
  /\ run[c].pc = "start"
  /\ Await(c, run[c],
           IF Console(run[c].cfg)
           THEN [world[c] EXCEPT !.printed =
                   Append(@, Line("conversation", "", run[c].cfg.user_question))]
           ELSE world[c],
           "planner", "planner-agent", "planner", planner_payload(run[c]),
           PlannerStreams)

\* lines 185-195, unless the code before them raised
ThenResearch(c, r, w) ==
  IF r.pc = "raised" THEN Unwind(c, r, w)
  ELSE Await(c, r, w, "research", "research-agent", "research",
             research_instruction(r), ResearchStreams)

\* lines 116-118 of the planner call, then lines 153-195
EndPlanner(c) ==
  /\ StageEnds(c, "planner")
  /\ \E r \in {AfterPlanner(run[c], StreamReturn(run[c]))} :
       ThenResearch(c, r, EndPrinted(world[c], run[c]))

\* lines 237-249, unless the code before them raised
ThenCandidate(c, r, w) ==
  IF r.pc = "raised" THEN Unwind(c, r, w)
  ELSE Await(c, r, w, "candidate", "main-agent", "reasoning",
             assemble_payload(r), CandidateStreams)

\* lines 116-118 of the research call, then lines 197-249
EndResearch(c) ==
  /\ StageEnds(c, "research")
  /\ \E r \in {AfterResearch(run[c], StreamReturn(run[c]))} :
       ThenCandidate(c, r, EndPrinted(world[c], run[c]))

\* lines 251-261
ThenCritic(c, r, w) ==
  Await(c, r, w, "critic", "critic-agent", "critic", critic_payload(r), CriticStreams)

\* lines 116-118 of the candidate call, then lines 251-261
EndCandidate(c) ==
  /\ StageEnds(c, "candidate")
  /\ \E r \in {AfterCandidate(run[c], StreamReturn(run[c]))} :
       ThenCritic(c, r, EndPrinted(world[c], run[c]))

\* a faulty variant of ThenFinal: a critic record without the verdict ACCEPT
\* sends the conversation back to candidate assembly
ThenFinalRetries(c, r, w) ==
  IF r.pc = "raised" THEN Unwind(c, r, w)
  ELSE IF DictGet(r.critic_json, KeyVerdict, None) = JStr(TextREVISE)
       THEN Await(c, r, w, "candidate", "main-agent", "reasoning",
                  assemble_payload(r), CandidateStreams)
  ELSE Await(c, r, w, "final", "main-agent", "final", final_payload(r), FinalStreams)

\* lines 296-298, unless the code before them raised
ThenFinal(c, r, w) ==
  IF r.pc = "raised" THEN Unwind(c, r, w)
  ELSE Await(c, r, w, "final", "main-agent", "final", final_payload(r), FinalStreams)

\* lines 116-118 of the critic call, then lines 263-298
EndCritic(c) ==
  /\ StageEnds(c, "critic")
  /\ \E r \in {AfterCritic(run[c], StreamReturn(run[c]))} :
       ThenFinal(c, r, EndPrinted(world[c], run[c]))

\* lines 300-316: the final answer is printed and the dict returned
ThenReturn(c, r, w) ==
  /\ run' = [run EXCEPT ![c] = r]
  /\ world' = [world EXCEPT ![c] =
                 IF Console(r.cfg)
                 THEN [w EXCEPT !.printed = Append(@, Line("final", "", r.final_out))]
                 ELSE w]

\* lines 116-118 of the final call, then lines 300-316
EndFinal(c) ==
  /\ StageEnds(c, "final")
  /\ \E r \in {AfterFinal(run[c], StreamReturn(run[c]))} :
       ThenReturn(c, r, EndPrinted(world[c], run[c]))

(***************************************************************************)
(* Specifications                                                          *)
(***************************************************************************)
\* one conversation
Init ==
  \E cfg \in Configs :
    /\ run = (1 :> NewRun("run_conversation", cfg, "", ""))
    /\ world = (1 :> NewWorld)

Next ==
  \/ \E c \in Conversations : Start(c)
  \/ \E c \in Conversations : ChunkArrives(c)
  \/ \E c \in Conversations : ProcessText(c)
  \/ \E c \in Conversations : SetStop(c)
  \/ \E c \in Conversations : EndPlanner(c)
  \/ \E c \in Conversations : EndResearch(c)
  \/ \E c \in Conversations : EndCandidate(c)
  \/ \E c \in Conversations : EndCritic(c)
  \/ \E c \in Conversations : EndFinal(c)

Spec == Init /\ [][Next]_vars

\* a step of the program or of the agent's stream; should_stop is the
\* caller's and need never start to return true
Advance ==
  \E c \in Conversations :
    \/ Start(c)
    \/ ChunkArrives(c)
    \/ ProcessText(c)
    \/ EndPlanner(c)
    \/ EndResearch(c)
    \/ EndCandidate(c)
    \/ EndCritic(c)
    \/ EndFinal(c)

\* one direct call of stream_subagent
InitStream ==
  \E cfg \in DirectConfigs, call \in DirectCalls :
    /\ run = (1 :> NewRun("stream_subagent", cfg, call.role_name, call.tag))
    /\ world = (1 :> NewWorld)

NextStream ==
  \/ \E c \in Conversations : StartStream(c)
  \/ \E c \in Conversations : ChunkArrives(c)
  \/ \E c \in Conversations : ProcessText(c)
  \/ \E c \in Conversations : SetStop(c)
  \/ \E c \in Conversations : EndStream(c)

SpecStream == InitStream /\ [][NextStream]_vars

\* one direct call of stream_subagent on an agent that echoes
NextEcho ==
  \/ \E c \in Conversations : StartEcho(c)
  \/ \E c \in Conversations : ChunkArrives(c)
  \/ \E c \in Conversations : ProcessText(c)
  \/ \E c \in Conversations : SetStop(c)
  \/ \E c \in Conversations : EndStream(c)

SpecEcho == InitStream /\ [][NextEcho]_vars

\* the streams of a conversation whose agent answers the five invocations
\* with fixed streams
ScriptAccepted ==
  << <<Content(PlanSpecExample)>>,
     <<Content(ResearchGood)>>,
     <<WithReasoning(CandidateText, FragThinking)>>,
     <<Content(CriticAccept)>>,
     <<Content(CandidateText)>> >>
ScriptFallbacks ==
  << <<Values(<<Msg(PlanNoise, <<>>)>>),
       Values(<<Msg(PlanNoise, <<>>), Msg(PlanShort, <<>>)>>)>>,
     <<Content(ResearchProse), Content(ResearchMore)>>,
     <<WithReasoning(CandidateText, FragThinking)>>,
     <<Content(CriticNotJson)>>,
     <<Content(FinalText)>> >>
ScriptRepeats ==
  << <<Content(PlanProse), Content(PlanProse)>>,
     <<Content(ResearchGood), Content(ResearchGood)>>,
     <<>>,
     <<Content(CriticAccept)>>,
     <<Content(CandidateText), Content(FinalText)>> >>
PairScripts == {ScriptAccepted, ScriptFallbacks, ScriptRepeats}
PairConfigs ==
  { Config(FALSE, "none", FALSE, PrefFirecrawl),
    Config(TRUE, "ok", FALSE, PrefTavily) }
PairIds == {1, 2}

\* two run_conversation calls on one agent, interleaved where either waits
\* for a chunk
InitPair ==
  \E cfgs \in [PairIds -> PairConfigs], scripts \in [PairIds -> PairScripts] :
    /\ run = [c \in PairIds |-> NewRun("run_conversation", cfgs[c], "", "")]
    /\ world = [c \in PairIds |-> [NewWorld EXCEPT !.script = scripts[c]]]

NextPair ==
  \/ \E c \in Conversations : Start(c)
  \/ \E c \in Conversations : ChunkArrives(c)
  \/ \E c \in Conversations : ProcessText(c)
  \/ \E c \in Conversations : EndPlanner(c)
  \/ \E c \in Conversations : EndResearch(c)
  \/ \E c \in Conversations : EndCandidate(c)
  \/ \E c \in Conversations : EndCritic(c)
  \/ \E c \in Conversations : EndFinal(c)

SpecPair == InitPair /\ [][NextPair]_vars

\* fixed streams whose research output has an unexpected shape (a list)
ScriptUnshaped ==
  << <<Content(PlanShort)>>,
     <<Content(ResearchList)>>,
     <<>>, <<>>, <<>> >>
FairScripts == PairScripts \cup {ScriptUnshaped}

\* one conversation with finite streams, on an event loop that keeps running
\* it and an agent whose streams yield their next chunk or end
InitFair ==
  \E cfg \in Configs, script \in FairScripts :
    /\ run = (1 :> NewRun("run_conversation", cfg, "", ""))
    /\ world = (1 :> [NewWorld EXCEPT !.script = script])

SpecFair == InitFair /\ [][Next]_vars /\ WF_vars(Advance)

(***************************************************************************)
(* Direct calls of utils.extract_json_substring and utils.normalize_short  *)
(***************************************************************************)
\* the longest enumerated argument text, and the largest max_chars
MaxTextLen == 5
MaxLimit == 4

\* every text of at most n characters of chars
TextsUpTo(chars, n) == UNION {[1..k -> chars] : k \in 0..n}

\* noise {"a":"}"} more
TextBraceInString ==
  <<"n","o","i","s","e"," ","{","\"","a","\"",":","\"","}","\"","}"," ","m",
    "o","r","e">>
\* noise [{"b":[1, 2]}] more [3]
TextNestedInNoise ==
  <<"n","o","i","s","e"," ","[","{","\"","b","\"",":","[","1",","," ","2",
    "]","}","]"," ","m","o","r","e"," ","[","3","]">>
\* no json here: "a", 1}
TextNoOpening ==
  <<"n","o"," ","j","s","o","n"," ","h","e","r","e",":"," ","\"","a","\"",
    ","," ","1","}">>

\* ["]["] tail
TextRetry ==
  <<"[","\"","]","[","\"","]"," ","t","a","i","l">>

\* the texts extract_json_substring is called with
ExtractTexts ==
  TextsUpTo({"[", "]", "{", "}", "\"", "a"}, MaxTextLen)
    \cup {TextBraceInString, TextNestedInNoise, TextNoOpening, TextRetry, PlanNoise \o PlanShort}

\* the texts and limits normalize_short is called with
NormalizeTexts == TextsUpTo({"a", "B", " ", "\n"}, MaxTextLen - 1) \cup {FragHelloAgain}
NormalizeLimits == 0..MaxLimit

\* texts longer than the cuts of the fallback values, and short ones
TextVeryLong == CriticLong \o CriticLong \o CriticLong
TextSpaced == <<" ", "\n">> \o FragHelloAgain \o <<"\t", " ">>
FallbackTexts ==
  {<<>>, <<" ", "\n">>, TextSpaced, PlanProse, ResearchProse, CriticLong,
   TextVeryLong, PlanShort}
FallbackLimits ==
  {0, StepKeepChars, StepNormChars, FallbackAnswerChars, 2 * FallbackAnswerChars}

\* the locals of a call of one of the functions, before its first statement
NewCall(entry, text, max_chars) ==
  [ entry |-> entry,
    pc |-> "start",
    text |-> text,
    max_chars |-> max_chars,
    extracted |-> [found |-> FALSE, text |-> <<>>],
    normalized |-> <<>>,
    step |-> Absent,
    record |-> None ]

\* extract_json_substring(text) returns
CallExtract(c) ==
  /\ run[c].entry = "extract_json_substring"
  /\ run[c].pc = "start"
  /\ run' = [run EXCEPT ![c].pc = "done",
                        ![c].extracted = extract_json_substring(run[c].text)]
  /\ UNCHANGED world

\* normalize_short(s, max_chars) returns
CallNormalize(c) ==
  /\ run[c].entry = "normalize_short"
  /\ run[c].pc = "start"
  /\ run' = [run EXCEPT ![c].pc = "done",
                        ![c].normalized = normalize_short(run[c].text, run[c].max_chars)]
  /\ UNCHANGED world

\* extract_first_step_description(planner_text) returns
CallFirstStep(c) ==
  /\ run[c].entry = "extract_first_step_description"
  /\ run[c].pc = "start"
  /\ run' = [run EXCEPT ![c].pc = "done",
                        ![c].step = extract_first_step_description(run[c].text)]
  /\ UNCHANGED world

\* run_conversation's statement that builds the fallback research record
CallResearchFallback(c) ==
  /\ run[c].entry = "research_fallback"
  /\ run[c].pc = "start"
  /\ run' = [run EXCEPT ![c].pc = "done",
                        ![c].record = research_fallback(run[c].text)]
  /\ UNCHANGED world

\* run_conversation's statement that builds the fallback critic record
CallCriticFallback(c) ==
  /\ run[c].entry = "critic_fallback"
  /\ run[c].pc = "start"
  /\ run' = [run EXCEPT ![c].pc = "done",
                        ![c].record = critic_fallback(run[c].text)]
  /\ UNCHANGED world

InitUtils ==
  /\ \/ \E text \in ExtractTexts :
          run = (1 :> NewCall("extract_json_substring", text, DefaultMaxChars))
     \/ \E s \in NormalizeTexts, max_chars \in NormalizeLimits :
          run = (1 :> NewCall("normalize_short", s, max_chars))
     \/ \E s \in FallbackTexts, max_chars \in FallbackLimits :
          run = (1 :> NewCall("normalize_short", s, max_chars))
     \/ \E text \in FallbackTexts,
           entry \in {"extract_first_step_description", "research_fallback",
                      "critic_fallback"} :
          run = (1 :> NewCall(entry, text, DefaultMaxChars))
  /\ world = (1 :> NewWorld)

NextUtils ==
  \/ \E c \in Conversations : CallExtract(c)
  \/ \E c \in Conversations : CallNormalize(c)
  \/ \E c \in Conversations : CallFirstStep(c)
  \/ \E c \in Conversations : CallResearchFallback(c)
  \/ \E c \in Conversations : CallCriticFallback(c)

SpecUtils == InitUtils /\ [][NextUtils]_vars

(***************************************************************************)
(* Properties of run_conversation                                          *)
(***************************************************************************)
\* the stages in the order run_conversation invokes them
StageNumber(pc) ==
  CASE pc = "planner" -> 1
    [] pc = "research" -> 2
    [] pc = "candidate" -> 3
    [] pc = "critic" -> 4
    [] pc = "final" -> 5
    [] OTHER -> 0

\* what the code after a stage's call assigns is still as it was before it
StageUnset(r, pc) ==
  CASE pc = "planner" -> r.planner_out = <<>> /\ r.plan = None /\ r.research_focus = None
    [] pc = "research" -> r.research_out_raw = <<>> /\ r.research_json = None
    [] pc = "candidate" -> r.candidate_out = <<>>
    [] pc = "critic" -> r.critic_out_raw = <<>> /\ r.critic_json = None
    [] pc = "final" -> r.final_out = <<>>
    [] OTHER -> FALSE

\* raw is no JSON text and extract_json_substring finds nothing in it
Unparseable(raw) == ~json_loads(raw).ok /\ ~extract_json_substring(raw).found

\* should_stop() turned true in the research stage, after its first text
StoppedAfterFirstResearchFragment(w) ==
  w.stop_mark.set /\ w.stop_mark.pc = "research" /\ w.stop_mark.processed >= 1

\* C1: while should_stop has never returned true, run_conversation does not
\* end by raising, whatever texts the five stages produced
C1_NoStageOutputRaises ==
  \A c \in Conversations : ~world[c].stop => run[c].pc # "raised"

C3_CancellationPropagates ==
  \A c \in Conversations :
    world[c].polled_after_stop =>
      /\ run[c].pc = "raised"
      /\ run[c].exception = "InterruptedError"
      /\ ~run[c].result.returned
      /\ Len(world[c].invoked) = StageNumber(world[c].chunk_after_stop)
      /\ StageUnset(run[c], world[c].chunk_after_stop)

\* C3 witness: a poll returned true in the final stage, after four stages
\* had returned
C3_CancelledInFinal ==
  \E c \in Conversations :
    /\ world[c].polled_after_stop
    /\ world[c].chunk_after_stop = "final"
    /\ run[c].exception = "InterruptedError"
    /\ Len(world[c].invoked) = 5

\* the planner's schema: a JSON array of step objects
IsStepList(x) == IsList(x) /\ \A i \in 1..Len(x.v) : IsDict(x.v[i])

\* C4: in a returned result, plan_parsed is an array of step objects, and
\* research_json and critic_json are objects (parsed, or the fallback);
\* none of the three is None or a value of another shape
C4_ParsedArtifactsWellFormed ==
  \A c \in Conversations :
    run[c].result.returned =>
      /\ IsStepList(run[c].result.plan_parsed)
      /\ IsDict(run[c].result.research_json)
      /\ IsDict(run[c].result.critic_json)

\* member of a list of texts
HasWarning(warnings, text) == \E i \in 1..Len(warnings) : warnings[i] = text

\* C9 as stated: when the research output is unparseable, the answer of the
\* research record is not empty
C9_FallbackAnswerNonEmpty ==
  \A c \in Conversations :
    (run[c].research_json # None /\ Unparseable(run[c].research_out_raw)) =>
      /\ IsDict(run[c].research_json)
      /\ DictGet(run[c].research_json, KeyAnswer, None).s # <<>>

\* C9 amended: when the research output is unparseable, the research record
\* has empty citations, empty method.tools_used and, as answer, the raw text
\* normalized and cut to 1000 characters (empty exactly when the raw text
\* has nothing but white space); the warnings hold the missing-evidence
\* warning; a returned result carries this record and these warnings
C9_FallbackRecord ==
  \A c \in Conversations :
    (run[c].research_json # None /\ Unparseable(run[c].research_out_raw)) =>
      /\ IsDict(run[c].research_json)
      /\ DictGet(run[c].research_json, KeyCitations, None) = JList(<<>>)
      /\ DictGet(DictGet(run[c].research_json, KeyMethod, None), KeyToolsUsed, None)
           = JList(<<>>)
      /\ DictGet(run[c].research_json, KeyAnswer, None)
           = JStr(normalize_short(run[c].research_out_raw, FallbackAnswerChars))
      /\ (DictGet(run[c].research_json, KeyAnswer, None).s = <<>>)
           <=> (Strip(run[c].research_out_raw) = <<>>)
      /\ HasWarning(run[c].warnings, WarnNoEvidence)
      /\ run[c].result.returned =>
           /\ run[c].result.research_json = run[c].research_json
           /\ run[c].result.warnings = run[c].warnings

\* C9 witness: a returned result whose research output was prose in two
\* fragments
C9_ProseResearchReturned ==
  \E c \in Conversations :
    /\ run[c].result.returned
    /\ run[c].result.research_raw = ResearchProse \o ResearchMore
    /\ HasWarning(run[c].result.warnings, WarnNoEvidence)

\* C10: when the critic's output is unparseable, the critic record is
\* verdict REVISE, one generic fix, and the first 400 characters of the
\* output as notes, and the final stage has been invoked
C10_CriticFallbackThenFinal ==
  \A c \in Conversations :
    (run[c].critic_json # None /\ Unparseable(run[c].critic_out_raw)) =>
      /\ run[c].critic_json =
           JObj(<<KeyVerdict, KeyFixes, KeyNotes>>,
                <<JStr(TextREVISE), JList(<<JStr(TextCriticUnparsable)>>),
                  JStr(Take(run[c].critic_out_raw, CriticNotesChars))>>)
      /\ Len(world[c].invoked) = 5

\* the entries of method.tools_used of a research record, lowercased; none
\* when method or tools_used is missing or tools_used is no list
ListedTools(research_json) ==
  LET method == DictGet(research_json, KeyMethod, None)
      listed == IF IsDict(method) THEN DictGet(method, KeyToolsUsed, None) ELSE None
  IN  IF IsList(listed)
      THEN [i \in 1..Len(listed.v) |-> Lower(PyStr(listed.v[i]))]
      ELSE <<>>

\* tavily
TextTavily ==
  <<"t","a","v","i","l","y">>

\* the tool name the preference expects, and the warning for its absence
ExpectedTool(research_preference) ==
  IF Lower(research_preference) = TextTavily THEN TextInternetSearch ELSE TextFirecrawl
WrongToolWarning(research_preference) ==
  IF Lower(research_preference) = TextTavily THEN WarnNoTavily ELSE WarnNoFirecrawl

\* how many entries of warnings are one of texts
CountOf(warnings, texts) == Cardinality({i \in 1..Len(warnings) : warnings[i] \in texts})

HasNonEmptyEvidence(research_json) ==
  \E key \in {KeyCitations, KeySources, KeyEvidence, KeyEvidenceTable} :
    HasKey(research_json, key) /\ Truthy(DictGet(research_json, key, None))

\* C12: in a returned result, the missing-evidence warning is present exactly
\* when none of citations, sources, evidence, evidence_table is non-empty,
\* whatever tools_used holds; the warnings are the missing-evidence warning
\* and the wrong-tool warning, each at most once and nothing else; when both
\* are present the missing-evidence warning comes first
C12_EvidenceWarningIndependent ==
  \A c \in Conversations :
    run[c].result.returned =>
      LET warnings == run[c].result.warnings
          wrong_tool == CountOf(warnings, {WarnNoTavily, WarnNoFirecrawl})
          no_evidence == CountOf(warnings, {WarnNoEvidence})
      IN  /\ HasWarning(warnings, WarnNoEvidence)
               <=> ~HasNonEmptyEvidence(run[c].result.research_json)
          /\ no_evidence <= 1
          /\ Len(warnings) = no_evidence + wrong_tool
          /\ (no_evidence = 1 /\ wrong_tool = 1) => warnings[1] = WarnNoEvidence

\* C12 witness: a parsed research record that lists a tool but holds no
\* evidence, under the firecrawl preference: both warnings, evidence first
C12_BothWarnings ==
  \E c \in Conversations :
    /\ run[c].result.returned
    /\ run[c].result.research_raw = ResearchTavily
    /\ ListedTools(run[c].result.research_json) # <<>>
    /\ run[c].result.warnings = <<WarnNoEvidence, WarnNoFirecrawl>>

\* the planner's call has just returned and lines 153-195 have run
JustAfterPlanner(c) ==
  \/ run[c].pc = "research" /\ world[c].yielded = 0 /\ ~world[c].stop
  \/ run[c].pc = "raised" /\ Len(world[c].invoked) = 1
       /\ run[c].exception # "InterruptedError"

\* the description of the first step of a parsed plan, None when the plan is
\* no non-empty array whose first element is a mapping with a non-empty
\* description
FirstDescription(plan) ==
  IF IsList(plan) /\ plan.v # <<>> /\ IsDict(plan.v[1])
     /\ HasKey(plan.v[1], KeyDescription)
     /\ Truthy(DictGet(plan.v[1], KeyDescription, None))
  THEN DictGet(plan.v[1], KeyDescription, None)
  ELSE None

\* C13: when the planner output parses, whole or by its extracted substring,
\* to a non-empty array whose first element is a mapping with a non-empty
\* description, the research stage is invoked and the research focus of its
\* payload is that description, not the user question and not the raw
\* planner text
C13_FocusIsFirstDescription ==
  \A c \in Conversations :
    JustAfterPlanner(c) =>
      LET description == FirstDescription(parse_plan(run[c].planner_out))
      IN  description # None =>
            /\ Len(world[c].invoked) = 2
            /\ world[c].invoked[2].role_name = "research-agent"
            /\ world[c].invoked[2].payload.research_focus = PyStr(description)
            /\ world[c].invoked[2].payload.research_focus # run[c].cfg.user_question
            /\ world[c].invoked[2].payload.research_focus # run[c].planner_out

\* C13 witness: the planner streamed the example plan and the research stage
\* was invoked with "Research ARC-AGI definition"
C13_ExamplePlanFocus ==
  \E c \in Conversations :
    /\ JustAfterPlanner(c)
    /\ run[c].planner_out = PlanSpecExample
    /\ Len(world[c].invoked) = 2
    /\ world[c].invoked[2].payload.research_focus =
         <<"R","e","s","e","a","r","c","h"," ","A","R","C","-","A","G","I"," ",
           "d","e","f","i","n","i","t","i","o","n">>

\* the focus the first element of a sequence gives: its description when
\* it is a mapping with a non-empty one, else its JSON serialization
ElementFocus(first) ==
  IF IsDict(first) /\ Truthy(DictGet(first, KeyDescription, None))
  THEN PyStr(DictGet(first, KeyDescription, None))
  ELSE json_dumps(first)

\* C27: when the planner output parses to a non-empty array, the planner
\* stage raises nothing, the research stage is invoked, and the research
\* focus is the first element's description, or the JSON serialization of
\* the first element when it has none, whatever the first element is
C27_SequenceFocusNeverRaises ==
  \A c \in Conversations :
    JustAfterPlanner(c) =>
      LET plan == parse_plan(run[c].planner_out)
      IN  (IsList(plan) /\ plan.v # <<>>) =>
            /\ run[c].pc # "raised"
            /\ Len(world[c].invoked) = 2
            /\ world[c].invoked[2].payload.research_focus = ElementFocus(plan.v[1])

\* the index of the first non-empty array among the values of a mapping, 0
\* when there is none
FirstSequence(vals) ==
  LET Full(i) == IsList(vals[i]) /\ vals[i].v # <<>>
  IN  IF \E i \in 1..Len(vals) : Full(i)
      THEN CHOOSE i \in 1..Len(vals) : Full(i) /\ \A j \in 1..(i - 1) : ~Full(j)
      ELSE 0

\* C28: when the planner output parses to a mapping with a non-empty array
\* among its values, the research focus comes from the first element of the
\* first such array in the mapping's order: its description, or its JSON
\* serialization
C28_MappingFirstSequence ==
  \A c \in Conversations :
    JustAfterPlanner(c) =>
      LET plan == parse_plan(run[c].planner_out)
      IN  (IsDict(plan) /\ FirstSequence(plan.v) # 0) =>
            /\ Len(world[c].invoked) = 2
            /\ world[c].invoked[2].payload.research_focus
                 = ElementFocus(plan.v[FirstSequence(plan.v)].v[1])

\* the parsed plan gives no first step: it is no non-empty array and no
\* mapping with a non-empty array among its values
NoFirstStep(plan) ==
  /\ ~(IsList(plan) /\ plan.v # <<>>)
  /\ ~(IsDict(plan) /\ FirstSequence(plan.v) # 0)

\* C29: when the parsed plan gives no first step, the research focus is what
\* extract_first_step_description returns for the raw planner output, and
\* the user question when it returns None; it returns None exactly when the
\* raw planner output is empty or whitespace; and the research focus sent to
\* the research stage is never empty and never the text of None
C29_FallbackFocus ==
  \A c \in Conversations :
    JustAfterPlanner(c) =>
      LET plan == parse_plan(run[c].planner_out)
          step == extract_first_step_description(run[c].planner_out)
      IN  /\ NoFirstStep(plan) =>
               /\ Len(world[c].invoked) = 2
               /\ world[c].invoked[2].payload.research_focus
                    = IF step.some THEN PyStr(step.v) ELSE run[c].cfg.user_question
          /\ ~step.some <=> Strip(run[c].planner_out) = <<>>
          /\ Len(world[c].invoked) = 2 =>
               /\ world[c].invoked[2].payload.research_focus # <<>>
               /\ world[c].invoked[2].payload.research_focus # PyStr(None)

\* C29 witness: the planner answered in prose; the research stage was
\* invoked with the normalized prose followed by "...", which is what
\* extract_first_step_description returns for it
C29_ProseFocus ==
  \E c \in Conversations :
    /\ JustAfterPlanner(c)
    /\ run[c].planner_out = PlanProse
    /\ Len(world[c].invoked) = 2
    /\ world[c].invoked[2].payload.research_focus
         = normalize_short(PlanProse, StepNormChars) \o Ellipsis
    /\ world[c].invoked[2].payload.research_focus # run[c].cfg.user_question

\* the five invocations of one conversation, in order
StageCalls ==
  << [role_name |-> "planner-agent", tag |-> "planner", pc |-> "planner"],
     [role_name |-> "research-agent", tag |-> "research", pc |-> "research"],
     [role_name |-> "main-agent", tag |-> "reasoning", pc |-> "candidate"],
     [role_name |-> "critic-agent", tag |-> "critic", pc |-> "critic"],
     [role_name |-> "main-agent", tag |-> "final", pc |-> "final"] >>

\* the invocations made so far are the first of StageCalls, each once, and a
\* returned result has made all five
StagesInOrder(r, w) ==
  /\ Len(w.invoked) <= Len(StageCalls)
  /\ \A i \in 1..Len(w.invoked) :
       /\ w.invoked[i].role_name = StageCalls[i].role_name
       /\ w.invoked[i].tag = StageCalls[i].tag
  /\ r.result.returned => Len(w.invoked) = Len(StageCalls)
  /\ r.pc \in StreamPcs => r.pc = StageCalls[Len(w.invoked)].pc

\* C17: the agent is invoked in the order planner-agent, research-agent,
\* main-agent (candidate), critic-agent, main-agent (final), no stage twice;
\* a step that invokes the agent invokes it once, and, after the first, only
\* when the stage before it has taken every chunk of its stream and every
\* text of its last chunk; a returned result has made five invocations.
\* (The state part is stated of the state after each step; it holds of the
\* initial state, where nothing has been invoked.)
C17_FixedStageOrder ==
  [][\A c \in Conversations :
       /\ StagesInOrder(run'[c], world'[c])
       /\ Len(world'[c].invoked) # Len(world[c].invoked) =>
            /\ Len(world'[c].invoked) = Len(world[c].invoked) + 1
            /\ world[c].pending = <<>>
            /\ run[c].texts = <<>>
            /\ Len(world[c].invoked) > 0 =>
                 run[c].pc = StageCalls[Len(world[c].invoked)].pc]_vars

\* C17 witness: a result was returned after five invocations although the
\* critic's output did not parse
C17_FiveInvocationsReturned ==
  \E c \in Conversations :
    /\ run[c].result.returned
    /\ Len(world[c].invoked) = 5
    /\ run[c].result.critic_raw = CriticNotJson
    /\ run[c].result.final = FinalText

\* what json.loads gives for raw, or for its extracted substring when raw as
\* a whole does not parse
ParsedEither(raw) ==
  IF json_loads(raw).ok THEN json_loads(raw).v
  ELSE json_loads(extract_json_substring(raw).text).v

\* C18: once the research (critic) stage has returned an output that parses,
\* whole or by its extracted substring, the research (critic) record is the
\* parsed value, whatever it is, and not the fallback record; a returned
\* result holds these records
C18_FallbackOnlyWhenUnparseable ==
  \A c \in Conversations :
    /\ (run[c].research_json # None /\ ~Unparseable(run[c].research_out_raw)) =>
         run[c].research_json = ParsedEither(run[c].research_out_raw)
    /\ (run[c].critic_json # None /\ ~Unparseable(run[c].critic_out_raw)) =>
         run[c].critic_json = ParsedEither(run[c].critic_out_raw)
    /\ run[c].result.returned =>
         /\ run[c].result.research_json = run[c].research_json
         /\ run[c].result.critic_json = run[c].critic_json

\* the first three entries of sources when it is a non-empty list, otherwise
\* of citations when it is a list, otherwise nothing
FirstThreeSources(research_json) ==
  LET sources == DictGet(research_json, KeySources, None)
      citations == DictGet(research_json, KeyCitations, None)
  IN  IF IsList(sources) /\ sources.v # <<>> THEN JList(Take(sources.v, 3))
      ELSE IF IsList(citations) THEN JList(Take(citations.v, 3))
      ELSE JList(<<>>)

\* C19: once the critic stage has returned, the final stage is invoked with
\* a top_sources list of at most 3 entries: the first 3 of sources when
\* sources is present and non-empty, otherwise the first 3 of citations,
\* empty when neither is present; also for a research record whose sources
\* or citations is null or no list
C19_TopSourcesAtMostThree ==
  \A c \in Conversations :
    run[c].critic_json # None =>
      /\ Len(world[c].invoked) = 5
      /\ IsList(world[c].invoked[5].payload.top_sources)
      /\ Len(world[c].invoked[5].payload.top_sources.v) <= 3
      /\ world[c].invoked[5].payload.top_sources = FirstThreeSources(run[c].research_json)

\* the place of a tag in the stage order, 0 for any other tag
TagNumber(tag) ==
  IF \E i \in 1..Len(StageCalls) : StageCalls[i].tag = tag
  THEN CHOOSE i \in 1..Len(StageCalls) : StageCalls[i].tag = tag
  ELSE 0

\* C26: the tags of the observer's calls are planner, research, reasoning,
\* critic and final, and never go back in that order; a step that calls the
\* observer calls it once, with the tag of the invocation under way; a call
\* tagged "final" is made only while the fifth invocation is under way.
\* (The state part is stated of the state after each step.)
C26_TagsFollowStages ==
  [][\A c \in Conversations :
       /\ \A i \in 1..Len(world'[c].observed) :
            /\ TagNumber(world'[c].observed[i].tag) > 0
            /\ \A j \in i..Len(world'[c].observed) :
                 TagNumber(world'[c].observed[i].tag) <= TagNumber(world'[c].observed[j].tag)
       /\ world'[c].observed # world[c].observed =>
            /\ Len(world'[c].observed) = Len(world[c].observed) + 1
            /\ SubSeq(world'[c].observed, 1, Len(world[c].observed)) = world[c].observed
            /\ Len(world[c].invoked) > 0
            /\ TagNumber(world'[c].observed[Len(world'[c].observed)].tag)
                 = Len(world[c].invoked)
            /\ run[c].pc = StageCalls[Len(world[c].invoked)].pc
            /\ world'[c].observed[Len(world'[c].observed)].tag = "final" =>
                 (Len(world[c].invoked) = 5 /\ run[c].pc = "final")]_vars

\* C26 witness: a conversation with an observer has returned and the
\* observer was called with each of the five tags
C26_AllFiveTagsObserved ==
  \E c \in Conversations :
    /\ run[c].result.returned
    /\ {world[c].observed[i].tag : i \in 1..Len(world[c].observed)}
         = {"planner", "research", "reasoning", "critic", "final"}

\* the warnings the research-stage checks give for a research record: the
\* missing-evidence warning, then the wrong-tool warning of the preference
ResearchWarnings(research_json, research_preference) ==
  (IF HasNonEmptyEvidence(research_json) THEN <<>> ELSE <<WarnNoEvidence>>)
  \o (IF \E i \in 1..Len(ListedTools(research_json)) :
            Contains(ListedTools(research_json)[i], ExpectedTool(research_preference))
      THEN <<>> ELSE <<WrongToolWarning(research_preference)>>)

\* C33: no step of the candidate, critic and final stages changes the
\* research record or the warnings; a returned result holds both as the
\* research stage left them, and its warnings are those of the
\* research-stage checks on the research record and nothing else, whether
\* or not the planner's and the critic's outputs parsed.  (The state part is
\* stated of the state after each step.)
C33_ResearchRecordFrozen ==
  [][\A c \in Conversations :
       /\ run[c].pc \in {"candidate", "critic", "final"} =>
            /\ run'[c].research_json = run[c].research_json
            /\ run'[c].warnings = run[c].warnings
       /\ run'[c].result.returned =>
            /\ run'[c].result.research_json = run'[c].research_json
            /\ run'[c].result.warnings = run'[c].warnings
            /\ run'[c].result.warnings
                 = ResearchWarnings(run'[c].result.research_json,
                                    run[c].cfg.research_preference)]_vars

\* C33 witness: a returned result without warnings although the planner's
\* output parsed to nothing and the critic's output did not parse
C33_ParseFailuresNoWarning ==
  \E c \in Conversations :
    /\ run[c].result.returned
    /\ run[c].result.plan_parsed = None
    /\ run[c].result.critic_raw = CriticNotJson
    /\ run[c].result.research_raw = ResearchGood
    /\ run[c].result.warnings = <<>>

\* the research output gives no record: it does not parse, whole or by its
\* extracted substring, or it parses to an empty or null value
FallbackSynthesized(raw) == Unparseable(raw) \/ ~Truthy(ParsedEither(raw))

\* C34: when the research record is the synthesized fallback, the warnings
\* are exactly the missing-evidence warning followed by the wrong-tool
\* warning of the selected preference, in the run and in a returned result
C34_FallbackHasTwoWarnings ==
  \A c \in Conversations :
    (run[c].research_json # None /\ FallbackSynthesized(run[c].research_out_raw)) =>
      /\ run[c].warnings = <<WarnNoEvidence, WrongToolWarning(run[c].cfg.research_preference)>>
      /\ run[c].result.returned => run[c].result.warnings = run[c].warnings

\* C34 witness: with the preference Tavily the research output was prose;
\* the returned result holds the fallback record and the two warnings, the
\* second being the Tavily warning
C34_ProseUnderTavily ==
  \E c \in Conversations :
    /\ run[c].result.returned
    /\ run[c].cfg.research_preference = PrefTavily
    /\ run[c].result.research_raw = ResearchProse
    /\ DictGet(run[c].result.research_json, KeyCitations, None) = JList(<<>>)
    /\ run[c].result.warnings = <<WarnNoEvidence, WarnNoTavily>>

\* C32: every invocation starts with an empty accumulator and an empty seen
\* set, whatever the stages before it accepted; so when the final stage
\* streams the text the candidate stage accepted, it is accepted again and
\* is the final answer.  (The state part is stated of the state after each
\* step.)
C32_SeenSetPerInvocation ==
  [][\A c \in Conversations :
       /\ Len(world'[c].invoked) # Len(world[c].invoked) =>
            /\ run'[c].seen_norms = {}
            /\ run'[c].collected = <<>>
       /\ (/\ run'[c].result.returned
           /\ world'[c].chunks = <<Content(CandidateText)>>) =>
            run'[c].result.final = CandidateText]_vars

\* C32 witness: a returned result whose candidate stage accepted the
\* candidate text and whose final stage accepted the same text again
C32_AcceptedAgainInFinal ==
  \E c \in Conversations :
    /\ run[c].result.returned
    /\ run[c].result.candidate = CandidateText \o FragThinking
    /\ world[c].chunks = <<Content(CandidateText)>>
    /\ run[c].result.final = CandidateText

\* run_conversation has ended: it returned or it raised
Ended(r) == r.pc \in {"done", "raised"}

\* the parsed plan is no list, or a list of mappings; the research record is
\* a mapping whose sources and citations, when present, are lists
PlanShaped(plan) ==
  plan.t = "list" => \A i \in 1..Len(plan.v) : plan.v[i].t = "obj"
ListOrAbsent(d, key) == HasKey(d, key) => DictGet(d, key, None).t = "list"
ResearchShaped(research_json) ==
  \/ research_json = None
  \/ /\ research_json.t = "obj"
     /\ ListOrAbsent(research_json, KeySources)
     /\ ListOrAbsent(research_json, KeyCitations)
ExpectedShapes(r) == PlanShaped(r.plan) /\ ResearchShaped(r.research_json)

\* C36: on an event loop that keeps running the conversation, with streams
\* that end, run_conversation ends; when the stage outputs have the expected
\* shapes it ends by returning the result record after its fifth invocation
\* or by raising InterruptedError; no step takes it back to an earlier stage
\* or out of its ended state (the parser calls inside the steps, among them
\* extract_json_substring, end with the step)
C36_ConversationEnds ==
  /\ <>(\A c \in Conversations : Ended(run[c]))
  /\ [](\A c \in Conversations :
          /\ run[c].pc = "done" =>
                run[c].result.returned /\ Len(world[c].invoked) = 5
          /\ (run[c].pc = "raised" /\ ExpectedShapes(run[c])) =>
                run[c].exception = "InterruptedError")
  /\ [][\A c \in Conversations :
          /\ StageNumber(run[c].pc) > 0 /\ StageNumber(run'[c].pc) > 0 =>
                StageNumber(run'[c].pc) \in {StageNumber(run[c].pc),
                                            StageNumber(run[c].pc) + 1}
          /\ Ended(run[c]) => run'[c] = run[c]
          /\ Len(world'[c].invoked) <= 5]_vars

\* C36 witness: a conversation whose caller could cancel it, and whose
\* critic asked for a revision, has returned after five invocations
C36_ReturnedAfterRevise ==
  \E c \in Conversations :
    /\ run[c].pc = "done"
    /\ run[c].cfg.has_stop
    /\ run[c].result.returned
    /\ Len(world[c].invoked) = 5
    /\ DictGet(run[c].result.critic_json, KeyVerdict, None) = JStr(TextREVISE)
    /\ run[c].result.final = FinalText

(***************************************************************************)
(* Properties of stream_subagent                                           *)
(***************************************************************************)
\* the texts a direct call can take from its chunks
StreamTexts ==
  UNION { { ChunkTexts(chunk.messages)[i].t : i \in 1..Len(ChunkTexts(chunk.messages)) } :
          chunk \in DirectChunks
                      \cup UNION { {stream[k] : k \in 1..Len(stream)} : stream \in EchoStreams } }

\* normalize_short(t) as the filter takes it, for the texts of StreamTexts
NormOf == [t \in StreamTexts |-> normalize_short(t, DefaultMaxChars)]
Norm(t) == NormOf[t]

\* for each role, the texts of StreamTexts that pass every test of the
\* filter when nothing has been seen
PassesAlone == [role_name \in RoleNames |-> {t \in StreamTexts : ~Discarded(t, role_name, {})}]

\* the texts the filter accepts of items, in order, starting from seen: a
\* text is accepted when it passes alone and its normalized form is new
RECURSIVE AcceptedTexts(_, _, _)
AcceptedTexts(items, role_name, seen) ==
  IF items = <<>> THEN <<>>
  ELSE IF Head(items).t \notin PassesAlone[role_name] \/ Norm(Head(items).t) \in seen
       THEN AcceptedTexts(Tail(items), role_name, seen)
  ELSE <<Head(items).t>>
       \o AcceptedTexts(Tail(items), role_name, seen \cup {Norm(Head(items).t)})

ObservedTexts(w) == [i \in 1..Len(w.observed) |-> w.observed[i].text]

\* C5: with an observer, the texts of the observer's calls are the accepted
\* texts, each once and in the order of arrival; so is the accumulator; and
\* the returned string is their concatenation in that order
C5_ObserverOrderAndReturn ==
  \A c \in Conversations :
    run[c].cfg.on_text # "none" =>
      LET accepted == AcceptedTexts(world[c].arrivals, run[c].role_name, {})
      IN  /\ ObservedTexts(world[c]) = accepted
          /\ run[c].collected = accepted
          /\ run[c].pc = "done" => run[c].stream_out = Join(accepted)

\* C5 witness: a call with an observer has returned; two texts were accepted
\* and at least one was discarded
C5_TwoAcceptedOneDiscarded ==
  \E c \in Conversations :
    /\ run[c].cfg.on_text # "none"
    /\ run[c].pc = "done"
    /\ Len(world[c].observed) = 2
    /\ Len(world[c].arrivals) > 2

\* C6: no two accumulated texts and no two observer calls have the same
\* normalized text; a text that passes the other tests has its normalized
\* form in the accumulator; and an accumulated text is the earliest arrival
\* of its normalized form that passes the other tests
C6_OneAcceptedPerNormalForm ==
  \A c \in Conversations :
    LET kept == [i \in 1..Len(run[c].collected) |-> Norm(run[c].collected[i])]
        told == [i \in 1..Len(world[c].observed) |-> Norm(world[c].observed[i].text)]
        came == [k \in 1..Len(world[c].arrivals) |-> Norm(world[c].arrivals[k].t)]
        passes == [k \in 1..Len(world[c].arrivals) |->
                     world[c].arrivals[k].t \in PassesAlone[run[c].role_name]]
    IN  /\ \A i, j \in 1..Len(kept) : i # j => kept[i] # kept[j]
        /\ \A i, j \in 1..Len(told) : i # j => told[i] # told[j]
        /\ \A k \in 1..Len(came) :
             passes[k] =>
               \E i \in 1..Len(kept), first \in 1..k :
                 /\ kept[i] = came[k]
                 /\ world[c].arrivals[first].t = run[c].collected[i]
                 /\ \A before \in 1..(first - 1) : came[before] = came[k] => ~passes[before]

\* C6 witness: "Hello world" then "hello   WORLD" arrived, the call has
\* returned, and only the first is accumulated and observed
C6_SecondHelloDropped ==
  \E c \in Conversations :
    /\ run[c].pc = "done"
    /\ Len(world[c].arrivals) = 2
    /\ world[c].arrivals[1].t = FragHello
    /\ world[c].arrivals[2].t = FragHelloAgain
    /\ run[c].collected = <<FragHello>>
    /\ Len(world[c].observed) = 1

\* t holds one of the three tool-call markers
HoldsMarker(t) ==
  \/ Contains(t, ToolCallMarker)
  \/ Contains(t, ToolCallsSectionMarker)
  \/ Contains(t, WriteTodosMarker)

\* C7: no text that holds a tool-call marker is accumulated, passed to the
\* observer, or printed
C7_NoMarkerForwarded ==
  \A c \in Conversations :
    /\ \A i \in 1..Len(run[c].collected) : ~HoldsMarker(run[c].collected[i])
    /\ \A i \in 1..Len(world[c].observed) : ~HoldsMarker(world[c].observed[i].text)
    /\ \A i \in 1..Len(world[c].printed) :
         world[c].printed[i].what = "text" => ~HoldsMarker(world[c].printed[i].text)

\* C7 witness: a text with "<|tool_call" arrived, another text was
\* accumulated, and the call has returned
C7_MarkerArrived ==
  \E c \in Conversations :
    /\ run[c].pc = "done"
    /\ \E k \in 1..Len(world[c].arrivals) :
         Contains(world[c].arrivals[k].t, ToolCallMarker)
    /\ run[c].collected # <<>>

\* C8: no exception other than the cancellation leaves stream_subagent, and
\* a text whose observer call raised is accumulated at its place and
\* recorded as seen
C8_ObserverExceptionSwallowed ==
  \A c \in Conversations :
    /\ run[c].exception \in {"", "InterruptedError"}
    /\ \A i \in 1..Len(world[c].observed) :
         world[c].observed[i].raised =>
           /\ Len(run[c].collected) >= i
           /\ run[c].collected[i] = world[c].observed[i].text
           /\ Norm(world[c].observed[i].text) \in run[c].seen_norms

\* C8 witness: the observer raised on the first accepted text, a later text
\* was accepted too, and the call has returned
C8_RaisedThenContinued ==
  \E c \in Conversations :
    /\ run[c].pc = "done"
    /\ Len(world[c].observed) = 2
    /\ world[c].observed[1].raised
    /\ Len(run[c].collected) = 2
    /\ run[c].stream_out = run[c].collected[1] \o run[c].collected[2]

\* C20: a chunk that arrives, or a text item that is taken from a chunk,
\* while should_stop() returns true ends the call with InterruptedError:
\* that step forwards nothing to the observer, prints nothing, appends
\* nothing to the accumulator, and no string is returned; no step follows it
C20_StopPolledBeforeEachFragment ==
  [][\A c \in Conversations :
       /\ (/\ run[c].cfg.has_stop
           /\ world[c].stop
           /\ \/ world'[c].yielded # world[c].yielded
              \/ run[c].texts # <<>> /\ run'[c] # run[c]) =>
            /\ run'[c].pc = "raised"
            /\ run'[c].exception = "InterruptedError"
            /\ run'[c].collected = run[c].collected
            /\ run'[c].stream_out = <<>>
            /\ world'[c].observed = world[c].observed
            /\ world'[c].printed = world[c].printed
       /\ world'[c].polled_after_stop =>
            /\ run'[c].pc = "raised"
            /\ run'[c].stream_out = <<>>
       /\ run[c].pc = "raised" => (run'[c] = run[c] /\ world'[c] = world[c])]_vars

\* C20 witness: of a chunk with two texts the first was accepted, then
\* should_stop() turned true, and the poll before the second text ended the
\* call
C20_StoppedBetweenTexts ==
  \E c \in Conversations :
    /\ world[c].polled_after_stop
    /\ run[c].pc = "raised"
    /\ world[c].yielded = 1
    /\ world[c].processed = 1
    /\ Len(run[c].collected) = 1

\* for each role, the texts whose normalized form (lowercased, whitespace
\* collapsed, at most 300 characters) is or holds the role's normalized
\* instruction preamble or its normalized registered prompt
EchoTexts ==
  [role_name \in RoleNames |->
     {t \in StreamTexts :
        \/ Contains(Norm(t), normalized_role_invocation[role_name])
        \/ /\ normalized_registered_prompt[role_name] # <<>>
           /\ Contains(Norm(t), normalized_registered_prompt[role_name])}]

\* C21: a text whose normalized form is or holds the normalized instruction
\* preamble of the current role, or its normalized registered prompt, is
\* discarded: it is never accumulated, passed to the observer or printed,
\* and it is no part of the returned string
C21_EchoDiscarded ==
  \A c \in Conversations :
    LET echo == EchoTexts[run[c].role_name]
    IN  /\ \A i \in 1..Len(run[c].collected) : run[c].collected[i] \notin echo
        /\ \A i \in 1..Len(world[c].observed) : world[c].observed[i].text \notin echo
        /\ \A i \in 1..Len(world[c].printed) :
             world[c].printed[i].what = "text" => world[c].printed[i].text \notin echo
        /\ run[c].pc = "done" => run[c].stream_out = Join(run[c].collected)

\* C21 witness: the planner's stream echoed the preamble after a few words,
\* then the registered prompt, then said "Hello world"; the call has returned
\* "Hello world" and the observer was told that text only
C21_BothEchoesDropped ==
  \E c \in Conversations :
    /\ run[c].role_name = "planner-agent"
    /\ run[c].pc = "done"
    /\ run[c].cfg.on_text = "ok"
    /\ [k \in 1..Len(world[c].arrivals) |-> world[c].arrivals[k].t]
         = <<FragEchoPreamble, FragEchoPrompt, FragHello>>
    /\ ObservedTexts(world[c]) = <<FragHello>>
    /\ run[c].stream_out = FragHello

\* for each role, the texts that hold the role's instruction preamble, both
\* lowercased and whitespace-collapsed without any truncation
PreambleAnywhere ==
  [role_name \in RoleNames |->
     {t \in StreamTexts :
        Contains(Lower(SplitJoin(t)), Lower(SplitJoin(role_invocation(role_name))))}]

\* C22: no accumulated text holds the instruction preamble of the current
\* role anywhere in its full lowercased, whitespace-collapsed text
C22_NoPreambleAnywhere ==
  \A c \in Conversations :
    \A i \in 1..Len(run[c].collected) :
      run[c].collected[i] \notin PreambleAnywhere[run[c].role_name]

\* the texts that hold, in any letter case, "objective" or "constraints" in
\* double quotes, or objective:
PlannerEchoTexts ==
  {t \in StreamTexts :
     \/ Contains(Lower(t), ObjectiveKey)
     \/ Contains(Lower(t), ConstraintsKey)
     \/ Contains(Lower(t), ObjectiveColon)}

\* the texts that begin, after trimming and in any letter case, with
\* "I will research" or "I'll research"
FillerTexts ==
  {t \in StreamTexts :
     \/ StartsWith(Lower(Strip(t)), IWillResearch)
     \/ StartsWith(Lower(Strip(t)), IllResearch)}

\* t is fit to be forwarded: three characters or more after trimming, no
\* planner-echo marker, no leading research filler
Presentable(t) ==
  /\ Len(Strip(t)) >= 3
  /\ t \notin PlannerEchoTexts
  /\ t \notin FillerTexts

\* C23: every text that is accumulated, passed to the observer or printed,
\* under any role and tag (the final-answer invocation included), has at
\* least 3 characters after trimming, holds none of the planner-echo
\* markers in any letter case, and does not begin with "I will research" or
\* "I'll research"
C23_AcceptedIsPresentable ==
  \A c \in Conversations :
    /\ \A i \in 1..Len(run[c].collected) : Presentable(run[c].collected[i])
    /\ \A i \in 1..Len(world[c].observed) : Presentable(world[c].observed[i].text)
    /\ \A i \in 1..Len(world[c].printed) :
         world[c].printed[i].what = "text" => Presentable(world[c].printed[i].text)

\* C23 witness: the final-answer invocation of main-agent took
\* "OBJECTIVE: find it" and then "I'll research this topic", both were
\* dropped, and the call returned the empty string
C23_FinalStageFiltered ==
  \E c \in Conversations :
    /\ run[c].role_name = "main-agent"
    /\ run[c].tag = "final"
    /\ run[c].pc = "done"
    /\ [k \in 1..Len(world[c].arrivals) |-> world[c].arrivals[k].t]
         = <<FragObjectiveUpper, FragFiller>>
    /\ run[c].collected = <<>>
    /\ run[c].stream_out = <<>>

\* the texts of the fragments printed to the console, in order
PrintedTexts(w) ==
  LET lines == SelectSeq(w.printed, LAMBDA line : line.what = "text")
  IN  [i \in 1..Len(lines) |-> lines[i].text]

\* C24: the accepted texts, in order, are the accumulator, and their
\* normalized forms are the seen set; with an observer they are the
\* observer's calls and nothing at all is printed, whatever quiet is;
\* without an observer they are the printed fragments when quiet is false,
\* and nothing is printed when quiet is true; a discarded text is in none of
\* these
C24_OneSinkAndAccumulator ==
  \A c \in Conversations :
    LET accepted == AcceptedTexts(world[c].arrivals, run[c].role_name, {})
    IN  /\ run[c].collected = accepted
        /\ run[c].seen_norms = {Norm(accepted[i]) : i \in 1..Len(accepted)}
        /\ run[c].cfg.on_text # "none" =>
             /\ ObservedTexts(world[c]) = accepted
             /\ world[c].printed = <<>>
        /\ (run[c].cfg.on_text = "none" /\ ~run[c].cfg.quiet) =>
             /\ world[c].observed = <<>>
             /\ PrintedTexts(world[c]) = accepted
        /\ (run[c].cfg.on_text = "none" /\ run[c].cfg.quiet) =>
             /\ world[c].observed = <<>>
             /\ world[c].printed = <<>>

\* C24 witness: without an observer and with quiet false three texts
\* arrived, two were printed and accumulated, one was discarded, and the
\* call has returned
C24_PrintedNotObserved ==
  \E c \in Conversations :
    /\ run[c].cfg.on_text = "none"
    /\ ~run[c].cfg.quiet
    /\ run[c].pc = "done"
    /\ Len(world[c].arrivals) = 3
    /\ Len(PrintedTexts(world[c])) = 2
    /\ PrintedTexts(world[c]) = run[c].collected
    /\ world[c].observed = <<>>

\* a text with its kind, nothing for an empty text
Kinded(t, kind) == IF t = <<>> THEN <<>> ELSE <<[t |-> t, kind |-> kind]>>

\* the texts of messages with their kinds: of each message the content as
\* "content", then the reasoning_content as "reasoning"
RECURSIVE ItemsOfMessages(_)
ItemsOfMessages(messages) ==
  IF messages = <<>> THEN <<>>
  ELSE Kinded(Head(messages).content, "content")
       \o Kinded(Head(messages).reasoning_content, "reasoning")
       \o ItemsOfMessages(Tail(messages))

RECURSIVE ItemsOfChunks(_)
ItemsOfChunks(chunks) ==
  IF chunks = <<>> THEN <<>>
  ELSE ItemsOfMessages(Head(chunks).messages) \o ItemsOfChunks(Tail(chunks))

IsPrefix(a, b) == Len(a) <= Len(b) /\ a = SubSeq(b, 1, Len(a))

\* the items the filter accepts, in order: the kind takes no part
RECURSIVE AcceptedItems(_, _, _)
AcceptedItems(items, role_name, seen) ==
  IF items = <<>> THEN <<>>
  ELSE IF Head(items).t \notin PassesAlone[role_name] \/ Norm(Head(items).t) \in seen
       THEN AcceptedItems(Tail(items), role_name, seen)
  ELSE <<Head(items)>>
       \o AcceptedItems(Tail(items), role_name, seen \cup {Norm(Head(items).t)})

\* C25: the loop takes the texts of the chunks message by message, the
\* content of a message (kind "content") before its reasoning_content (kind
\* "reasoning"); the observer's calls carry the accepted texts with these
\* kinds; which texts are accepted and accumulated does not depend on the
\* kind, and the returned string joins the accepted texts of both kinds
C25_KindsAndOrder ==
  \A c \in Conversations :
    LET items == ItemsOfChunks(world[c].chunks)
        accepted == AcceptedItems(world[c].arrivals, run[c].role_name, {})
    IN  /\ IsPrefix(world[c].arrivals, items)
        /\ (run[c].pc # "raised" /\ run[c].texts = <<>>) => world[c].arrivals = items
        /\ run[c].cfg.on_text # "none" =>
             [i \in 1..Len(world[c].observed) |->
                [t |-> world[c].observed[i].text, kind |-> world[c].observed[i].kind]]
               = accepted
        /\ run[c].collected = [i \in 1..Len(accepted) |-> accepted[i].t]
        /\ run[c].pc = "done" =>
             run[c].stream_out = Join([i \in 1..Len(accepted) |-> accepted[i].t])

\* C25 witness: one chunk gave "Hello world" as content and "Let me think"
\* as reasoning_content; the observer was called with the first as
\* "content", then with the second as "reasoning", and the call returned
\* both joined
C25_ReasoningReturned ==
  \E c \in Conversations :
    /\ run[c].pc = "done"
    /\ world[c].chunks = <<WithReasoning(FragHello, FragThinking)>>
    /\ Len(world[c].observed) = 2
    /\ world[c].observed[1].text = FragHello
    /\ world[c].observed[1].kind = "content"
    /\ world[c].observed[2].text = FragThinking
    /\ world[c].observed[2].kind = "reasoning"
    /\ run[c].stream_out = FragHello \o FragThinking

\* the texts that are noise: a tool-call marker, a planner-echo marker, a
\* leading research filler, or fewer than three characters after trimming
NoiseTexts == {t \in StreamTexts : HoldsMarker(t) \/ ~Presentable(t)}

\* the texts of items, in order, that are no noise, do not hold the role's
\* normalized preamble, and do not repeat a normalized form: what is left
\* when the registered prompt takes no part
RECURSIVE NonNoiseTexts(_, _, _)
NonNoiseTexts(items, role_name, seen) ==
  IF items = <<>> THEN <<>>
  ELSE IF \/ Head(items).t \in NoiseTexts
          \/ Contains(Norm(Head(items).t), normalized_role_invocation[role_name])
          \/ Norm(Head(items).t) \in seen
       THEN NonNoiseTexts(Tail(items), role_name, seen)
  ELSE <<Head(items).t>>
       \o NonNoiseTexts(Tail(items), role_name, seen \cup {Norm(Head(items).t)})

\* C37: for a role without a registered prompt the normalized prompt is
\* empty and its echo test drops nothing: the accumulator holds every text
\* that is no noise, no echo of the preamble and no repeat
C37_EmptyPromptDropsNothing ==
  \A c \in Conversations :
    normalized_registered_prompt[run[c].role_name] = <<>> =>
      run[c].collected = NonNoiseTexts(world[c].arrivals, run[c].role_name, {})

\* C37 witness: a call for helper-agent, which has no registered prompt, has
\* returned "Hello worldLet me think"
C37_UnregisteredRoleAccepted ==
  \E c \in Conversations :
    /\ run[c].role_name = "helper-agent"
    /\ SUB_PROMPTS_get(run[c].role_name) = <<>>
    /\ run[c].pc = "done"
    /\ run[c].collected = <<FragHello, FragThinking>>
    /\ run[c].stream_out = FragHello \o FragThinking

(***************************************************************************)
(* Properties of extract_json_substring and normalize_short                *)
(***************************************************************************)
\* a call of extract_json_substring has returned
Extracted(c) == run[c].entry = "extract_json_substring" /\ run[c].pc = "done"
\* a call of normalize_short has returned
Normalized(c) == run[c].entry = "normalize_short" /\ run[c].pc = "done"

\* text holds '{' or '['
HasOpening(text) == \E i \in 1..Len(text) : text[i] \in {"{", "["}

C15_NoOpeningNoJson ==
  \A c \in Conversations :
    (Extracted(c) /\ ~HasOpening(run[c].text)) => ~run[c].extracted.found

\* C15 witness: a call has returned None for a text that holds closing
\* brackets and a quoted string but no '{' and no '['
C15_OnlyClosingBrackets ==
  \E c \in Conversations :
    /\ Extracted(c)
    /\ run[c].text = TextNoOpening
    /\ ~run[c].extracted.found

\* C16: normalize_short(normalize_short(s, n), n) = normalize_short(s, n)
C16_NormalizeIdempotent ==
  \A c \in Conversations :
    Normalized(c) =>
      normalize_short(run[c].normalized, run[c].max_chars) = run[c].normalized

\* the index of the first '{' or '[' of a text that holds one
MinOpening(text) ==
  CHOOSE i \in 1..Len(text) :
    /\ text[i] \in {"{", "["}
    /\ \A j \in 1..(i - 1) : text[j] \notin {"{", "["}

\* the opening brackets less the closing brackets of text[from..to]
RECURSIVE Balance(_, _, _)
Balance(text, from, to) ==
  IF to < from THEN 0
  ELSE Balance(text, from, to - 1)
       + (IF text[to] \in {"{", "["} THEN 1
          ELSE IF text[to] \in {"}", "]"} THEN -1 ELSE 0)

\* a scan from start finds the stack emptied by the closing bracket at e: no
\* closing bracket before e met an empty stack
EmptiedAt(text, start, e) ==
  /\ text[e] \in {"}", "]"}
  /\ Balance(text, start, e) = 0
  /\ \A k \in start..(e - 1) : Balance(text, start, k) >= 0

\* the ends of the prefixes from start that close the stack and parse
ParsingEnds(text, start) ==
  {e \in start..Len(text) :
     EmptiedAt(text, start, e) /\ json_loads(SubSeq(text, start, e)).ok}

CallDone(c, entry) == run[c].entry = entry /\ run[c].pc = "done"

\* extract_first_step_description reaches its last two lines: the text holds
\* no plan with a first step and no "description" pair
TextFallbackTaken(planner_text) ==
  /\ ~StepFromJson(planner_text).some
  /\ ~DescriptionRegex(planner_text).some

\* C35: the cut values keep their length bounds: normalize_short(s, n) has at
\* most n characters; the answer of the fallback research record has at most
\* 1000 characters; the notes of the fallback critic record have at most 400
\* characters; the text fallback of extract_first_step_description is the
\* first 350 characters of the normalized text followed by "...", so it has
\* at most 353 characters and ends with "..." also when the normalized text
\* had fewer than 350 characters (an empty normalized text gives None)
C35_FallbackLengthBounds ==
  \A c \in Conversations :
    /\ CallDone(c, "normalize_short") =>
          Len(run[c].normalized) <= run[c].max_chars
    /\ CallDone(c, "research_fallback") =>
          /\ run[c].record.t = "obj"
          /\ DictGet(run[c].record, KeyAnswer, None).t = "str"
          /\ Len(DictGet(run[c].record, KeyAnswer, None).s) <= 1000
    /\ CallDone(c, "critic_fallback") =>
          /\ run[c].record.t = "obj"
          /\ DictGet(run[c].record, KeyNotes, None).t = "str"
          /\ Len(DictGet(run[c].record, KeyNotes, None).s) <= 400
    /\ (CallDone(c, "extract_first_step_description")
          /\ TextFallbackTaken(run[c].text)) =>
          LET t == Lower(SplitJoin(run[c].text))
          IN  IF t = <<>>
              THEN ~run[c].step.some
              ELSE /\ run[c].step.some
                   /\ run[c].step.v.t = "str"
                   /\ Len(run[c].step.v.s) <= 353
                   /\ Len(run[c].step.v.s) = (IF Len(t) < 350 THEN Len(t) ELSE 350) + 3
                   /\ SubSeq(run[c].step.v.s, 1, Len(run[c].step.v.s) - 3)
                        = SubSeq(t, 1, Len(run[c].step.v.s) - 3)
                   /\ SubSeq(run[c].step.v.s, Len(run[c].step.v.s) - 2,
                             Len(run[c].step.v.s)) = <<".", ".", ".">>

\* C35 witness: a 436-character critique given as the planner's text comes
\* back as its first 350 normalized characters and "...", 353 in all
C35_LongTextCutTo353 ==
  \E c \in Conversations :
    /\ CallDone(c, "extract_first_step_description")
    /\ run[c].text = CriticLong
    /\ Len(run[c].text) > 400
    /\ run[c].step.some
    /\ Len(run[c].step.v.s) = 353

(***************************************************************************)
(* Properties of interleaved conversations                                 *)
(***************************************************************************)
\* the items one invocation accepts of items when it starts from seen
RECURSIVE AcceptedAlone(_, _, _)
AcceptedAlone(items, role_name, seen) ==
  IF items = <<>> THEN <<>>
  ELSE IF Discarded(Head(items).t, role_name, seen)
       THEN AcceptedAlone(Tail(items), role_name, seen)
  ELSE <<Head(items)>>
       \o AcceptedAlone(Tail(items), role_name,
                        seen \cup {normalize_short(Head(items).t, DefaultMaxChars)})

\* what the invocation of stage n accepts of its stream when nothing else runs
AloneItems(script, n) ==
  AcceptedAlone(ItemsOfChunks(script[n]), StageCalls[n].role_name, {})
\* and what it returns
AloneOut(script, n) ==
  Join([i \in 1..Len(AloneItems(script, n)) |-> AloneItems(script, n)[i].t])

\* the record a conversation returns when it runs alone with the streams of
\* script, none of which makes a stage raise
AloneResult(cfg, script) ==
  AfterFinal(
    AfterCritic(
      AfterCandidate(
        AfterResearch(
          AfterPlanner(NewRun("run_conversation", cfg, "", ""), AloneOut(script, 1)),
          AloneOut(script, 2)),
        AloneOut(script, 3)),
      AloneOut(script, 4)),
    AloneOut(script, 5)).result

\* the observer's calls of stages n..5 of a conversation that runs alone
RECURSIVE AloneCalls(_, _)
AloneCalls(script, n) ==
  IF n > 5 THEN <<>>
  ELSE [i \in 1..Len(AloneItems(script, n)) |->
          [tag |-> StageCalls[n].tag, text |-> AloneItems(script, n)[i].t,
           kind |-> AloneItems(script, n)[i].kind, raised |-> FALSE]]
       \o AloneCalls(script, n + 1)
AloneObserved(cfg, script) ==
  IF cfg.on_text = "none" THEN <<>> ELSE AloneCalls(script, 1)

\* both, for the arguments and streams of the interleaved calls
AloneOutcome ==
  [cfg \in PairConfigs, script \in PairScripts |->
     [result |-> AloneResult(cfg, script), observed |-> AloneObserved(cfg, script)]]

\* C31: two run_conversation calls on one agent, interleaved at the waits
\* for a chunk, share nothing: a step of one call leaves the locals, the
\* accumulator, the seen set, the parsed artifacts, the warnings and the
\* observer's calls of the other as they were, and when a call has returned,
\* its result record and the sequence of its observer's calls are those of
\* the same call running alone with the same streams
C31_InterleavedAsAlone ==
  [][/\ \A c \in Conversations :
          (run'[c] # run[c] \/ world'[c] # world[c]) =>
            \A d \in Conversations \ {c} :
              run'[d] = run[d] /\ world'[d] = world[d]
     /\ \A c \in Conversations :
          run'[c].pc = "done" =>
            /\ run'[c].result = AloneOutcome[run'[c].cfg, world'[c].script].result
            /\ world'[c].observed
                 = AloneOutcome[run'[c].cfg, world'[c].script].observed]_vars

\* C31 witness: both calls have returned, with the same streams, after the
\* second accepted a planner text while the first was past that stage, and
\* both observers were told the same texts
C31_BothReturnedSameStreams ==
  /\ Conversations = {1, 2}
  /\ \A c \in Conversations :
       /\ run[c].result.returned
       /\ world[c].script = ScriptAccepted
       /\ run[c].cfg.on_text = "ok"
       /\ run[c].result.final = CandidateText
  /\ world[1].observed = world[2].observed
  /\ Len(world[1].observed) = 6

====
